---- MODULE Spec2Model ----
(***************************************************************************)
(* FinEdge: the flat-file record store (FileStorageService), the services  *)
(* built on it (TransactionService, UserService) and the token service     *)
(* (JWTService), as state machines.                                        *)
(*                                                                         *)
(* Scheduling model: one Node.js process.  A request handler runs without  *)
(* preemption between two awaits; every await of a file-system call is a   *)
(* suspension point at which any other in-flight request may run.  Each    *)
(* action below is one such run-to-suspension segment of one request.      *)
(***************************************************************************)
EXTENDS Integers, Sequences, FiniteSets, TLC

(***************************************************************************)
(* Bounds of the model.                                                    *)
(***************************************************************************)
NumProcs == 2        \* request handlers that may be in flight together
MaxCalls == 3        \* service calls started in one behaviour
MaxFileClock == 1    \* last clock value (ms) of the file-store behaviours
NumRand == 2         \* distinct outcomes of Math.random() in an identifier

Procs == 1..NumProcs

VARIABLES
  clock,      \* Date.now(), in milliseconds
  files,      \* collection name -> the container file on disk
  procs,      \* request handler -> its position and locals
  calls,      \* number of service calls started
  returned,   \* the settled calls, in the order they settled, as their callers saw them
  issued,     \* the token generateToken returned last, with what it was made from
  result,     \* what the last token, query or summary call gave its caller
  ticks,      \* number of clock steps taken by the token behaviours
  issues,     \* number of tokens generated
  mongo,      \* MongoDBConnection's statics and the driver's connection
  db          \* the document database: its collections and its session

fileVars == <<files, procs, calls, returned>>
tokVars == <<issued, result, ticks, issues>>
dbVars == <<mongo, db>>
vars == <<clock, files, procs, calls, returned, issued, result, ticks, issues, mongo, db>>

(***************************************************************************)
(* The document backend before anything has run.                           *)
(*   instance, isConnected   the statics of MongoDBConnection              *)
(*   readyState              mongoose.connection.readyState:               *)
(*                           "disconnected", "connecting", "connected"     *)
(*   pending                 invocations of mongoose.connect not settled   *)
(*   attempts                invocations of mongoose.connect so far        *)
(*   closed                  a disconnect() has completed and no caller    *)
(*                           has asked to connect since                    *)
(***************************************************************************)
NotConnected ==
  [instance |-> "null", isConnected |-> FALSE, readyState |-> "disconnected",
   pending |-> 0, attempts |-> 0, closed |-> FALSE]

\* No documents; no session.
NoSession == [state |-> "none", writes |-> <<>>, commits |-> 0, aborts |-> 0, ends |-> 0]

EmptyDatabase == [users |-> <<>>, transactions |-> <<>>, session |-> NoSession]

(***************************************************************************)
(* Strings whose characters matter are sequences of character codes.       *)
(***************************************************************************)
ToLowerCaseChar(c) == IF c >= 65 /\ c <= 90 THEN c + 32 ELSE c

ToLowerCase(s) == [i \in 1..Len(s) |-> ToLowerCaseChar(s[i])]

(***************************************************************************)
(* The container file of a collection.                                     *)
(*   st = "absent"   the file does not exist (ENOENT)                      *)
(*   st = "ok"       the file holds the JSON of `data`                     *)
(*   st = "torn"     fs.writeFile has opened (O_TRUNC) the file and has    *)
(*                   not yet written: the file is empty                    *)
(*   st = "corrupt"  a shorter write landed over a longer one: the bytes   *)
(*                   are not JSON                                          *)
(* size is the length of the bytes on disk, counted in records.            *)
(***************************************************************************)
Collections == {"users", "transactions"}

AbsentFile == [st |-> "absent", data |-> <<>>, size |-> 0]

\* readFile: the parsed array, [] for ENOENT, or a DatabaseError.
readFile(f) ==
  CASE f.st = "absent" -> [ok |-> TRUE, data |-> <<>>]
    [] f.st = "ok"     -> [ok |-> TRUE, data |-> f.data]
    [] OTHER           -> [ok |-> FALSE, data |-> <<>>]

\* fs.writeFile, first half: open with flag 'w' truncates the file.
writeFileOpen(f) == [st |-> "torn", data |-> <<>>, size |-> 0]

\* fs.writeFile, second half: the bytes are written from offset 0 of the
\* writer's own descriptor; bytes another writer left beyond them stay.
writeFileFlush(f, data) ==
  IF Len(data) >= f.size
    THEN [st |-> "ok", data |-> data, size |-> Len(data)]
    ELSE [st |-> "corrupt", data |-> <<>>, size |-> f.size]

\* data.findIndex(item => item.id === id), 0 for -1
RECURSIVE findIndexFrom(_, _, _)
findIndexFrom(data, id, i) ==
  IF i > Len(data) THEN 0
  ELSE IF data[i].id = id THEN i
  ELSE findIndexFrom(data, id, i + 1)

findIndex(data, id) == findIndexFrom(data, id, 1)

\* data.filter(item => item.id !== id)
filterOut(data, id) == SelectSeq(data, LAMBDA item : item.id # id)

mergeUpdate_itemWins(item, updateData, now) ==
  [k \in (DOMAIN item) \cup (DOMAIN updateData) \cup {"updatedAt"} |->
     IF k = "updatedAt" THEN now
     ELSE IF k \in DOMAIN item THEN item[k]
     ELSE updateData[k]]

\* { ...item, ...updateData, updatedAt: now }
mergeUpdate(item, updateData, now) ==
  [k \in (DOMAIN item) \cup (DOMAIN updateData) \cup {"updatedAt"} |->
     IF k = "updatedAt" THEN now
     ELSE IF k \in DOMAIN updateData THEN updateData[k]
     ELSE item[k]]

\* updateInFile's new array: data[index] = merge
updatedData(data, index, updateData, now) ==
  [i \in 1..Len(data) |->
     IF i = index THEN mergeUpdate(data[i], updateData, now) ELSE data[i]]

\* users.find(u => u.email === email.toLowerCase())
RECURSIVE findEmailFrom(_, _, _)
findEmailFrom(users, email, i) ==
  IF i > Len(users) THEN 0
  ELSE IF users[i].email = ToLowerCase(email) THEN i
  ELSE findEmailFrom(users, email, i + 1)

getUserByEmail(users, email) == findEmailFrom(users, email, 1)

(***************************************************************************)
(* Identifiers: `txn_${Date.now()}_${random}` and `user_${Date.now()}_..`. *)
(***************************************************************************)
NoId == <<"none", 0, 0>>

newId(prefix, now, r) == <<prefix, now, r>>

(***************************************************************************)
(* Inputs.                                                                 *)
(***************************************************************************)
TransactionInputs ==
  { [userId |-> "u1", type |-> "expense", category |-> "Food", amount |-> 50,
     description |-> "Lunch"] }

UpdateInputs == { [amount |-> 75] }

\* config.validation.maxAmount
MaxAmount == 1000000

\* Amounts a caller may hand to the service: in range, negative, over the maximum.
AmountInputs == {50, 0 - 5, MaxAmount + 1}

\* createTransaction payloads with each of the amounts.
StoreInputs ==
  { [d EXCEPT !.amount = a] : d \in TransactionInputs, a \in AmountInputs }

\* updateTransaction payloads naming the amount.
AmountPayloads == { [amount |-> a] : a \in AmountInputs }

\* Partial payloads that name the fields the store itself sets.
FieldPayloads ==
  { [id |-> newId("txn", 0, 1)],
    [createdAt |-> MaxFileClock + 1],
    [updatedAt |-> MaxFileClock + 1] }

Email_a == <<97, 64, 120>>     \* "a@x"
Email_A == <<65, 64, 88>>      \* "A@X"
Email_b == <<98, 64, 120>>     \* "b@x"

\* updatePreferences payloads: some of the preference keys.
PreferenceInputs ==
  { [theme |-> "dark", currency |-> "EUR"], [notifications |-> FALSE] }

UserInputs ==
  { [email |-> e, password |-> "pw", firstName |-> "John", lastName |-> "Doe"] :
      e \in {Email_a, Email_A, Email_b} }

DefaultPreferences ==
  [currency |-> "USD", theme |-> "light", notifications |-> TRUE, language |-> "en"]

(***************************************************************************)
(* A request handler.                                                      *)
(*   pc = "idle"   no call in progress                                     *)
(*   pc = "check"  awaiting the service's own lookup (a readFile)          *)
(*   pc = "read"   awaiting the readFile of the storage operation          *)
(*   pc = "write"  awaiting fs.writeFile's open                            *)
(*   pc = "flush"  awaiting fs.writeFile's write and close                 *)
(***************************************************************************)
IdleProc ==
  [pc |-> "idle", op |-> "none", coll |-> "none", id |-> NoId,
   req |-> <<>>, arg |-> <<>>, data |-> <<>>, at |-> 0]

Settled(p, kind) ==
  [op |-> procs[p].op, kind |-> kind, id |-> procs[p].id,
   req |-> procs[p].req, arg |-> procs[p].arg, at |-> procs[p].at, cause |-> "none"]

\* The call of p settles: its caller gets `kind`.
Return(p, kind) ==
  /\ procs' = [procs EXCEPT ![p] = IdleProc]
  /\ returned' = Append(returned, Settled(p, kind))

\* The call of p fails with `kind`, which wraps the error `cause`:
\*   "readFile"        DatabaseError('Failed to read file') of readFile
\*   "Item not found"  Error('Item not found') of updateInFile / deleteFromFile
ReturnBecause(p, kind, cause) ==
  /\ procs' = [procs EXCEPT ![p] = IdleProc]
  /\ returned' = Append(returned, [Settled(p, kind) EXCEPT !.cause = cause])

Start(p, op, coll, pc, id, arg) ==
  /\ procs[p].pc = "idle"
  /\ calls < MaxCalls
  /\ calls' = calls + 1
  /\ procs' = [procs EXCEPT ![p] =
       [pc |-> pc, op |-> op, coll |-> coll, id |-> id, req |-> arg, arg |-> arg,
        data |-> <<>>, at |-> 0]]
  /\ UNCHANGED <<clock, files, returned, tokVars, dbVars>>

\* Identifiers a caller can hold: those a create has returned.
KnownIds(prefix) ==
  { returned[i].id : i \in { j \in 1..Len(returned) :
       returned[j].kind = "ok" /\ returned[j].id[1] = prefix } }

(***************************************************************************)
(* TransactionService                                                      *)
(***************************************************************************)
createTransaction(p, transactionData, r) ==
  LET transaction ==
        [id |-> newId("txn", clock, r),
         userId |-> transactionData.userId,
         type |-> transactionData.type,
         category |-> transactionData.category,
         amount |-> transactionData.amount,
         description |-> transactionData.description,
         date |-> clock,
         createdAt |-> clock,
         updatedAt |-> clock]
  IN Start(p, "createTransaction", "transactions", "read", transaction.id, transaction)

getTransactionById(p, id) ==
  Start(p, "getTransactionById", "transactions", "read", id, <<>>)

updateTransaction(p, id, updateData) ==
  Start(p, "updateTransaction", "transactions", "check", id, updateData)

deleteTransaction(p, id) ==
  Start(p, "deleteTransaction", "transactions", "check", id, <<>>)

(***************************************************************************)
(* FileStorageService called directly on the transactions file.            *)
(***************************************************************************)
updateInFile(p, id, updateData) ==
  Start(p, "updateInFile", "transactions", "read", id, updateData)

deleteFromFile(p, id) ==
  Start(p, "deleteFromFile", "transactions", "read", id, <<>>)

\* An identifier no create assigns.
MissingId == newId("txn", 0, 0)

(***************************************************************************)
(* UserService                                                             *)
(***************************************************************************)
createUser(p, userData) ==
  Start(p, "createUser", "users", "check", NoId, userData)

updatePreferences(p, userId, preferences) ==
  Start(p, "updatePreferences", "users", "check", userId, preferences)

\* { ...user.preferences, ...preferences }
mergePreferences(old, preferences) ==
  [k \in (DOMAIN old) \cup (DOMAIN preferences) |->
     IF k \in DOMAIN preferences THEN preferences[k] ELSE old[k]]

\* The calls that go through updateInFile and through deleteFromFile.
UpdateOps == {"updateTransaction", "updatePreferences", "updateInFile"}

DeleteOps == {"deleteTransaction", "deleteFromFile"}

(***************************************************************************)
(* The service's own lookup before the storage operation:                  *)
(* getTransactionById in update/deleteTransaction, getUserByEmail in       *)
(* createUser, getUserById in updatePreferences (which builds the update   *)
(* payload from the user it read).                                         *)
(***************************************************************************)
Check(p, r) ==
  /\ procs[p].pc = "check"
  /\ UNCHANGED <<clock, files, calls, tokVars, dbVars>>
  /\ LET me == procs[p]
         got == readFile(files[me.coll])
     IN IF ~got.ok THEN ReturnBecause(p, "DatabaseError", "readFile")
        ELSE IF me.op = "createUser"
          THEN IF getUserByEmail(got.data, me.arg.email) # 0
                 THEN Return(p, "ConflictError")
                 ELSE LET user ==
                            [id |-> newId("user", clock, r),
                             email |-> ToLowerCase(me.arg.email),
                             password |-> me.arg.password,
                             firstName |-> me.arg.firstName,
                             lastName |-> me.arg.lastName,
                             preferences |-> DefaultPreferences,
                             createdAt |-> clock,
                             updatedAt |-> clock]
                      IN /\ procs' = [procs EXCEPT ![p] =
                               [me EXCEPT !.pc = "read", !.id = user.id, !.arg = user]]
                         /\ UNCHANGED returned
          ELSE IF findIndex(got.data, me.id) = 0
                 THEN Return(p, "NotFoundError")
          ELSE IF me.op = "updatePreferences"
                 THEN LET user == got.data[findIndex(got.data, me.id)]
                      IN /\ procs' = [procs EXCEPT ![p] =
                               [me EXCEPT !.pc = "read",
                                          !.arg = [preferences |->
                                             mergePreferences(user.preferences, me.req)]]]
                         /\ UNCHANGED returned
                 ELSE /\ procs' = [procs EXCEPT ![p].pc = "read"]
                      /\ UNCHANGED returned

(***************************************************************************)
(* The readFile of appendToFile, updateInFile, deleteFromFile and          *)
(* findByIdInFile, and the synchronous code up to the writeFile.           *)
(***************************************************************************)
Read(p) ==
  /\ procs[p].pc = "read"
  /\ UNCHANGED <<clock, files, calls, tokVars, dbVars>>
  /\ LET me == procs[p]
         got == readFile(files[me.coll])
         index == findIndex(got.data, me.id)
         Write(data) ==
           /\ procs' = [procs EXCEPT ![p] = [me EXCEPT !.pc = "write", !.data = data, !.at = clock]]
           /\ UNCHANGED returned
     IN IF ~got.ok THEN ReturnBecause(p, "DatabaseError", "readFile")
        ELSE CASE me.op \in {"createTransaction", "createUser"} ->
                    Write(Append(got.data, me.arg))
               [] me.op \in UpdateOps ->
                    IF index = 0 THEN ReturnBecause(p, "DatabaseError", "Item not found")
                    ELSE Write(updatedData(got.data, index, me.arg, clock))
               [] me.op \in DeleteOps ->
                    IF Len(filterOut(got.data, me.id)) = Len(got.data)
                      THEN ReturnBecause(p, "DatabaseError", "Item not found")
                      ELSE Write(filterOut(got.data, me.id))
               [] OTHER ->   \* getTransactionById
                    IF index = 0 THEN Return(p, "NotFoundError")
                    ELSE Return(p, "ok")

\* writeFile: fs.writeFile opens the file, which truncates it.
WriteOpen(p) ==
  /\ procs[p].pc = "write"
  /\ files' = [files EXCEPT ![procs[p].coll] = writeFileOpen(@)]
  /\ procs' = [procs EXCEPT ![p].pc = "flush"]
  /\ UNCHANGED <<clock, calls, returned, tokVars, dbVars>>

\* writeFile: fs.writeFile writes the bytes; the storage operation and the
\* service call return.
WriteFlush(p) ==
  /\ procs[p].pc = "flush"
  /\ files' = [files EXCEPT ![procs[p].coll] = writeFileFlush(@, procs[p].data)]
  /\ Return(p, "ok")
  /\ UNCHANGED <<clock, calls, tokVars, dbVars>>

\* Time passes.
Tick ==
  /\ clock < MaxFileClock
  /\ clock' = clock + 1
  /\ UNCHANGED <<fileVars, tokVars, dbVars>>


(***************************************************************************)
(* JWTService.  A token is a string: a sequence of character codes.        *)
(* Buffer.from(str) and buf.toString() are UTF-8, the identity on the      *)
(* ASCII text used here.                                                   *)
(***************************************************************************)
DOT == 46
PAD == 61
QUOTE == 34
BACKSLASH == 92

B64Alphabet ==
  <<65, 66, 67, 68, 69, 70, 71, 72, 73, 74, 75, 76, 77, 78, 79, 80, 81, 82, 83,
    84, 85, 86, 87, 88, 89, 90, 97, 98, 99, 100, 101, 102, 103, 104, 105, 106,
    107, 108, 109, 110, 111, 112, 113, 114, 115, 116, 117, 118, 119, 120, 121,
    122, 48, 49, 50, 51, 52, 53, 54, 55, 56, 57, 43, 47>>

\* The 6-bit value of a base64 character, -1 for a character outside the alphabet.
B64Value(c) ==
  CASE c >= 65 /\ c <= 90  -> c - 65
    [] c >= 97 /\ c <= 122 -> c - 71
    [] c >= 48 /\ c <= 57  -> c + 4
    [] c = 43 -> 62
    [] c = 47 -> 63
    [] OTHER -> -1

\* buf.toString('base64')
Base64Encode(bytes) ==
  LET n == Len(bytes)
      byte(j) == IF j <= n THEN bytes[j] ELSE 0
      char(i) ==
        LET g == (i - 1) \div 4
            k == (i - 1) % 4
            b0 == byte(3 * g + 1)
            b1 == byte(3 * g + 2)
            b2 == byte(3 * g + 3)
        IN CASE k = 0 -> B64Alphabet[(b0 \div 4) + 1]
             [] k = 1 -> B64Alphabet[((b0 % 4) * 16 + (b1 \div 16)) + 1]
             [] k = 2 -> IF 3 * g + 2 > n THEN PAD
                         ELSE B64Alphabet[((b1 % 16) * 4 + (b2 \div 64)) + 1]
             [] OTHER -> IF 3 * g + 3 > n THEN PAD ELSE B64Alphabet[(b2 % 64) + 1]
  IN [i \in 1..(4 * ((n + 2) \div 3)) |-> char(i)]

\* Buffer.from(text, 'base64'): the bytes of the leading run of base64 characters.
Base64Decode(text) ==
  LET bad == { i \in 1..Len(text) : B64Value(text[i]) < 0 }
      m == IF bad = {} THEN Len(text)
           ELSE (CHOOSE i \in bad : \A j \in bad : i <= j) - 1
      val(i) == IF i <= m THEN B64Value(text[i]) ELSE 0
      byte(j) ==
        LET idx == (8 * (j - 1)) \div 6
            off == (8 * (j - 1)) % 6
            w == val(idx + 1) * 64 + val(idx + 2)
        IN CASE off = 0 -> (w \div 16) % 256
             [] off = 2 -> (w \div 4) % 256
             [] OTHER -> w % 256
  IN [j \in 1..((m * 6) \div 8) |-> byte(j)]

(***************************************************************************)
(* JSON.  An object is the sequence of its members in insertion order; a   *)
(* value is a string, a number or undefined.                               *)
(***************************************************************************)
Str(s) == [t |-> "str", s |-> s, n |-> 0]
Num(n) == [t |-> "num", s |-> <<>>, n |-> n]
Undefined == [t |-> "undefined", s |-> <<>>, n |-> 0]

Member(k, v) == [k |-> k, v |-> v]

\* obj[key], undefined when the object has no such member
ObjGet(obj, key) ==
  LET at == { i \in 1..Len(obj) : obj[i].k = key }
  IN IF at = {} THEN Undefined ELSE obj[CHOOSE i \in at : \A j \in at : j <= i].v

\* { ...obj, [key]: value }
ObjSet(obj, key, value) ==
  IF \E i \in 1..Len(obj) : obj[i].k = key
    THEN [i \in 1..Len(obj) |-> IF obj[i].k = key THEN Member(key, value) ELSE obj[i]]
    ELSE Append(obj, Member(key, value))

RECURSIVE Digits(_)
Digits(n) == IF n < 10 THEN <<48 + n>> ELSE Digits(n \div 10) \o <<48 + (n % 10)>>

RECURSIVE JsonEscape(_, _)
JsonEscape(s, i) ==
  IF i > Len(s) THEN <<>>
  ELSE (IF s[i] \in {QUOTE, BACKSLASH} THEN <<BACKSLASH, s[i]>> ELSE <<s[i]>>)
       \o JsonEscape(s, i + 1)

JsonString(s) == <<QUOTE>> \o JsonEscape(s, 1) \o <<QUOTE>>

\* JSON.stringify of an object: members whose value is undefined are left out.
RECURSIVE StringifyMembers(_, _, _)
StringifyMembers(obj, i, first) ==
  IF i > Len(obj) THEN <<>>
  ELSE IF obj[i].v.t = "undefined" THEN StringifyMembers(obj, i + 1, first)
  ELSE (IF first THEN <<>> ELSE <<44>>)
       \o JsonString(obj[i].k) \o <<58>>
       \o (IF obj[i].v.t = "str" THEN JsonString(obj[i].v.s) ELSE Digits(obj[i].v.n))
       \o StringifyMembers(obj, i + 1, FALSE)

JSONStringify(obj) == <<123>> \o StringifyMembers(obj, 1, TRUE) \o <<125>>

\* A JSON string starting after its opening quote at position i.
RECURSIVE ScanString(_, _, _)
ScanString(s, i, acc) ==
  IF i > Len(s) THEN [ok |-> FALSE, s |-> acc, next |-> i]
  ELSE IF s[i] = QUOTE THEN [ok |-> TRUE, s |-> acc, next |-> i + 1]
  ELSE IF s[i] = BACKSLASH
    THEN IF i + 1 <= Len(s) /\ s[i + 1] \in {QUOTE, BACKSLASH}
           THEN ScanString(s, i + 2, Append(acc, s[i + 1]))
           ELSE [ok |-> FALSE, s |-> acc, next |-> i]
  ELSE ScanString(s, i + 1, Append(acc, s[i]))

\* A JSON number (a run of digits) starting at position i.
RECURSIVE ScanNumber(_, _, _)
ScanNumber(s, i, acc) ==
  IF i <= Len(s) /\ s[i] >= 48 /\ s[i] <= 57
    THEN ScanNumber(s, i + 1, acc * 10 + (s[i] - 48))
    ELSE [n |-> acc, next |-> i]

\* The members of an object, from position i (after '{' or after ',').
RECURSIVE ParseMembers(_, _, _)
ParseMembers(s, i, obj) ==
  LET fail == [ok |-> FALSE, isNull |-> FALSE, obj |-> <<>>]
  IN IF i > Len(s) \/ s[i] # QUOTE THEN fail
     ELSE LET key == ScanString(s, i + 1, <<>>)
          IN IF ~key.ok \/ key.next > Len(s) \/ s[key.next] # 58 THEN fail
             ELSE LET j == key.next + 1
                      isStr == j <= Len(s) /\ s[j] = QUOTE
                      isNum == j <= Len(s) /\ s[j] >= 48 /\ s[j] <= 57
                      str == ScanString(s, j + 1, <<>>)
                      num == ScanNumber(s, j, 0)
                      next == IF isStr THEN str.next ELSE num.next
                      obj2 == ObjSet(obj, key.s, IF isStr THEN Str(str.s) ELSE Num(num.n))
                  IN IF ~(isStr \/ isNum) \/ (isStr /\ ~str.ok) \/ next > Len(s) THEN fail
                     ELSE IF s[next] = 125
                       THEN IF next = Len(s)
                              THEN [ok |-> TRUE, isNull |-> FALSE, obj |-> obj2]
                              ELSE fail
                     ELSE IF s[next] = 44 THEN ParseMembers(s, next + 1, obj2)
                     ELSE fail

\* JSON.parse, for the texts that reach it here: an object of string and number
\* members, the literal null, or a SyntaxError.
JSONParse(s) ==
  IF s = <<110, 117, 108, 108>> THEN [ok |-> TRUE, isNull |-> TRUE, obj |-> <<>>]
  ELSE IF Len(s) < 2 \/ s[1] # 123 THEN [ok |-> FALSE, isNull |-> FALSE, obj |-> <<>>]
  ELSE IF Len(s) = 2 /\ s[2] = 125 THEN [ok |-> TRUE, isNull |-> FALSE, obj |-> <<>>]
  ELSE ParseMembers(s, 2, <<>>)

(***************************************************************************)
(* crypto.createHmac('sha256', key).update(msg).digest('base64'), as an    *)
(* ideal MAC: a text over the base64 alphabet that determines key and msg  *)
(* (two characters for the key's length and for each character).           *)
(***************************************************************************)
Hmac(key, msg) ==
  LET input == <<Len(key)>> \o key \o msg
  IN [i \in 1..(2 * Len(input)) |->
        IF i % 2 = 1 THEN B64Alphabet[(input[(i + 1) \div 2] \div 64) + 1]
        ELSE B64Alphabet[(input[i \div 2] % 64) + 1]]

\* token.split('.')
Split(text) ==
  LET dots == { i \in 1..Len(text) : text[i] = DOT }
      dot(k) == IF k = 0 THEN 0
                ELSE IF k > Cardinality(dots) THEN Len(text) + 1
                ELSE CHOOSE d \in dots : Cardinality({ e \in dots : e < d }) = k - 1
  IN [k \in 1..(Cardinality(dots) + 1) |-> SubSeq(text, dot(k - 1) + 1, dot(k) - 1)]


(***************************************************************************)
(* JWTService.generateToken / verifyToken / decodeToken / refreshToken.    *)
(***************************************************************************)
TokenLifetime == 604800       \* 7 * 24 * 60 * 60 seconds

JwtSecret == <<115, 51>>      \* config.security.jwtSecret (JWT_SECRET), here "s3"
OtherSecret == <<120, 57>>    \* a key that is not the server's, "x9"

HeaderJson ==                 \* JSON.stringify({ alg: 'HS256', typ: 'JWT' })
  <<123, 34, 97, 108, 103, 34, 58, 34, 72, 83, 50, 53, 54, 34, 44, 34, 116, 121,
    112, 34, 58, 34, 74, 87, 84, 34, 125>>

K_sub == <<115, 117, 98>>             \* "sub"
K_email == <<101, 109, 97, 105, 108>> \* "email"
K_type == <<116, 121, 112, 101>>      \* "type"
K_iat == <<105, 97, 116>>             \* "iat"
K_exp == <<101, 120, 112>>            \* "exp"

\* Math.floor(Date.now() / 1000)
nowSeconds(ms) == ms \div 1000

\* iat: Math.floor(Date.now() / 1000)
tokenIat(ms) == nowSeconds(ms)

tokenExp_minutes(ms) == nowSeconds(ms) + (7 * 24 * 60)

\* exp: Math.floor(Date.now() / 1000) + (7 * 24 * 60 * 60)
tokenExp(ms) == nowSeconds(ms) + TokenLifetime

\* `${headerEncoded}.${bodyEncoded}.${signature}` signed with `key`
signToken(key, headerEncoded, bodyEncoded) ==
  headerEncoded \o <<DOT>> \o bodyEncoded \o <<DOT>>
    \o Hmac(key, headerEncoded \o <<DOT>> \o bodyEncoded)

\* generateToken(payload); t1 and t2 are what its two Date.now() calls return.
generateToken(payload, t1, t2) ==
  LET body == ObjSet(ObjSet(payload, K_iat, Num(tokenIat(t1))), K_exp, Num(tokenExp(t2)))
  IN signToken(JwtSecret, Base64Encode(HeaderJson), Base64Encode(JSONStringify(body)))

signatureMatches_length(signature, expectedSignature) ==
  Len(signature) = Len(expectedSignature)

\* signature !== expectedSignature, negated
signatureMatches(signature, expectedSignature) == signature = expectedSignature

isExpired_inclusive(exp, now) == exp.t = "num" /\ exp.n <= now

\* body.exp < Math.floor(Date.now() / 1000); false when body.exp is undefined
isExpired(exp, now) == exp.t = "num" /\ exp.n < now

Failure(kind) == [kind |-> kind, body |-> <<>>]

verifyToken_expiryFirst(input, ms) ==
  IF ~input.isString THEN Failure("TypeError")
  ELSE LET parts == Split(input.tok)
       IN IF Len(parts) # 3 THEN Failure("InvalidFormat")
          ELSE LET parsed == JSONParse(Base64Decode(parts[2]))
               IN IF ~parsed.ok THEN Failure("SyntaxError")
                  ELSE IF parsed.isNull THEN Failure("TypeError")
                  ELSE IF isExpired(ObjGet(parsed.obj, K_exp), nowSeconds(ms))
                    THEN Failure("Expired")
                  ELSE IF ~signatureMatches(parts[3], Hmac(JwtSecret, parts[1] \o <<DOT>> \o parts[2]))
                    THEN Failure("InvalidSignature")
                  ELSE [kind |-> "ok", body |-> parsed.obj]

\* verifyToken(token), with Date.now() = ms.  kind is "ok" or the failure:
\*   'Invalid token format' -> "InvalidFormat"
\*   'Invalid signature'    -> "InvalidSignature"
\*   'Token expired'        -> "Expired"
\*   any other message wrapped by the catch -> the exception it came from
verifyToken(input, ms) ==
  IF ~input.isString THEN Failure("TypeError")       \* token.split is not a function
  ELSE LET parts == Split(input.tok)
       IN IF Len(parts) # 3 THEN Failure("InvalidFormat")
          ELSE IF ~signatureMatches(parts[3], Hmac(JwtSecret, parts[1] \o <<DOT>> \o parts[2]))
            THEN Failure("InvalidSignature")
          ELSE LET parsed == JSONParse(Base64Decode(parts[2]))
               IN IF ~parsed.ok THEN Failure("SyntaxError")    \* JSON.parse threw
                  ELSE IF parsed.isNull THEN Failure("TypeError")  \* body.exp of null
                  ELSE IF isExpired(ObjGet(parsed.obj, K_exp), nowSeconds(ms))
                    THEN Failure("Expired")
                  ELSE [kind |-> "ok", body |-> parsed.obj]

\* decodeToken(token): the payload, unverified
decodeToken(input) ==
  IF ~input.isString THEN Failure("TypeError")
  ELSE LET parts == Split(input.tok)
       IN IF Len(parts) # 3 THEN Failure("InvalidFormat")
          ELSE LET parsed == JSONParse(Base64Decode(parts[2]))
               IN IF ~parsed.ok THEN Failure("SyntaxError")
                  ELSE [kind |-> "ok", body |-> parsed.obj]

refreshDecoded_unverified(input, ms) == decodeToken(input)

\* refreshToken: const decoded = this.verifyToken(oldToken)
refreshDecoded(input, ms) == verifyToken(input, ms)

\* refreshToken: the payload handed to generateToken
refreshPayload(decoded) ==
  <<Member(K_sub, ObjGet(decoded, K_sub)),
    Member(K_email, ObjGet(decoded, K_email)),
    Member(K_type, ObjGet(decoded, K_type))>>

(***************************************************************************)
(* Token behaviours: the clock moves, tokens are generated, and callers    *)
(* present tokens (good, altered, forged or not tokens at all) to          *)
(* verifyToken and refreshToken.                                           *)
(***************************************************************************)
MaxTicks == 2      \* clock steps in one behaviour
MaxIssues == 2     \* tokens generated in one behaviour
MaxElapsed == 1    \* ms that may pass between the two Date.now() of generateToken

\* Two seconds, and one second short of the lifetime of a token.
TokenTicks == {2000, (TokenLifetime - 1) * 1000}

ClockHorizon == 2 * TokenLifetime * 1000

S_u1 == <<117, 49>>           \* "u1"
S_quoted == <<117, 34, 50>>   \* "u\"2"
S_email == <<97, 64, 120>>    \* "a@x"
S_session == <<115, 101, 115, 115, 105, 111, 110>>   \* "session"

ClaimInputs ==
  { <<Member(K_sub, Str(sub)), Member(K_email, Str(S_email)), Member(K_type, Str(S_session))>> :
      sub \in {S_u1, S_quoted} }

TamperChars == {65, 66, 48, 61, 46, 33}    \* A B 0 = . !

NoToken == [token |-> <<>>, payload |-> <<>>, t1 |-> 0, t2 |-> 0, by |-> "none"]

\* A value handed to verifyToken or refreshToken: tok is the text; src, pos, ch,
\* exp and claims say how it was made (the character put in and where, the
\* expiry and the claims it was made to carry).
Input(src, tok, pos, ch, exp, claims) ==
  [src |-> src, isString |-> TRUE, tok |-> tok, pos |-> pos, ch |-> ch, exp |-> exp,
   claims |-> claims]

NoInput == Input("none", <<>>, 0, 0, 0, <<>>)

NoResult ==
  [op |-> "none", src |-> "none", pos |-> 0, ch |-> 0, exp |-> 0, claims |-> <<>>,
   kind |-> "none", body |-> <<>>, ms |-> 0]

Outcome(op, input, v) ==
  [op |-> op, src |-> input.src, pos |-> input.pos, ch |-> input.ch, exp |-> input.exp,
   claims |-> input.claims, kind |-> v.kind, body |-> v.body, ms |-> clock]

\* The positions of the payload (second) segment of a token.
PayloadPositions(token) ==
  LET dots == { i \in 1..Len(token) : token[i] = DOT }
  IN IF dots = {} THEN {}
     ELSE ((CHOOSE d \in dots : \A e \in dots : d <= e) + 1)
            ..((CHOOSE d \in dots : \A e \in dots : e <= d) - 1)

\* The token as issued.
IssuedInput == Input("issued", issued.token, 0, 0, tokenExp(issued.t2), issued.payload)

\* The issued token with the character at pos replaced by ch.
TamperedInput(pos, ch) ==
  Input("tampered", [issued.token EXCEPT ![pos] = ch], pos, ch,
        tokenExp(issued.t2), issued.payload)

\* The issued token's header and payload signed with another key.
ResignedInput ==
  Input("resigned", signToken(OtherSecret, Split(issued.token)[1], Split(issued.token)[2]),
        0, 0, tokenExp(issued.t2), issued.payload)

\* The issued token without its signature segment.
TruncatedInput ==
  Input("truncated", Split(issued.token)[1] \o <<DOT>> \o Split(issued.token)[2],
        0, 0, tokenExp(issued.t2), issued.payload)

\* 'invalid.token.here'
LiteralInput ==
  Input("literal",
    <<105, 110, 118, 97, 108, 105, 100, 46, 116, 111, 107, 101, 110, 46, 104, 101, 114, 101>>,
    0, 0, 0, <<>>)

\* A value that is not a string.
NonStringInput == [NoInput EXCEPT !.src = "nonstring", !.isString = FALSE]

\* A token built outside generateToken and signed with the server's secret,
\* with expiry exp (seconds).
SignedInput(exp) ==
  LET claims == <<Member(K_sub, Str(S_u1)), Member(K_email, Str(S_email))>>
      body == claims \o <<Member(K_iat, Num(0)), Member(K_exp, Num(exp))>>
  IN Input("signed",
       signToken(JwtSecret, Base64Encode(HeaderJson), Base64Encode(JSONStringify(body))),
       0, 0, exp, claims)

JunkPayloads == { <<111, 111, 112, 115>>, <<110, 117, 108, 108>> }   \* oops, null

\* A correctly signed token whose payload is not a JSON object.
JunkInput(text) ==
  Input("junk", signToken(JwtSecret, Base64Encode(HeaderJson), Base64Encode(text)),
        0, 0, 0, <<>>)

\* What callers present, apart from altered tokens.
TokenInputs ==
  (IF issued.by # "none" THEN {IssuedInput, ResignedInput, TruncatedInput} ELSE {})
    \cup {LiteralInput, NonStringInput}
    \cup { SignedInput(e) : e \in {nowSeconds(clock) - 1, nowSeconds(clock)} \cap Nat }
    \cup { JunkInput(text) : text \in JunkPayloads }

TokenTick(d) ==
  /\ result.op = "none"
  /\ ticks < MaxTicks
  /\ clock + d <= ClockHorizon
  /\ clock' = clock + d
  /\ ticks' = ticks + 1
  /\ UNCHANGED <<fileVars, issued, result, issues, dbVars>>

GenerateToken(payload, elapsed) ==
  /\ result.op = "none"
  /\ issues < MaxIssues
  /\ issued' = [token |-> generateToken(payload, clock, clock + elapsed),
                payload |-> payload, t1 |-> clock, t2 |-> clock + elapsed, by |-> "generate"]
  /\ clock' = clock + elapsed
  /\ issues' = issues + 1
  /\ UNCHANGED <<fileVars, result, ticks, dbVars>>

VerifyToken(input) ==
  /\ result.op = "none"
  /\ result' = Outcome("verify", input, verifyToken(input, clock))
  /\ UNCHANGED <<clock, fileVars, issued, ticks, issues, dbVars>>

\* refreshToken(input); on success generateToken runs, and `elapsed` ms pass
\* between its two Date.now() calls.
RefreshToken(input) ==
  /\ result.op = "none"
  /\ issues < MaxIssues
  /\ LET v == refreshDecoded(input, clock)
         payload == refreshPayload(v.body)
     IN /\ result' = Outcome("refresh", input, v)
        /\ IF v.kind = "ok"
             THEN \E elapsed \in 0..MaxElapsed :
                    /\ issued' = [token |-> generateToken(payload, clock, clock + elapsed),
                                  payload |-> payload,
                                  t1 |-> clock, t2 |-> clock + elapsed, by |-> "refresh"]
                    /\ clock' = clock + elapsed
                    /\ issues' = issues + 1
             ELSE UNCHANGED <<issued, clock, issues>>
  /\ UNCHANGED <<fileVars, ticks, dbVars>>

\* The caller takes the result (authenticate sets req.user or passes the error on).
Continue ==
  /\ result.op # "none"
  /\ result' = NoResult
  /\ UNCHANGED <<clock, fileVars, issued, ticks, issues, dbVars>>

(***************************************************************************)
(* Specifications.                                                         *)
(***************************************************************************)
InitFiles ==
  /\ files = [c \in Collections |-> AbsentFile]
  /\ procs = [p \in Procs |-> IdleProc]
  /\ calls = 0
  /\ returned = <<>>
  /\ issued = NoToken
  /\ result = NoResult
  /\ ticks = 0
  /\ issues = 0
  /\ mongo = NotConnected
  /\ db = EmptyDatabase

Init == clock = 0 /\ InitFiles

\* The token behaviours start on or just before a second boundary.
InitClocks == {0, 999}

InitToken == clock \in InitClocks /\ InitFiles

Steps ==
  \/ \E p \in Procs : Read(p)
  \/ \E p \in Procs : WriteOpen(p)
  \/ \E p \in Procs : WriteFlush(p)
  \/ Tick

\* The transaction store.
NextTxn ==
  \/ \E p \in Procs, d \in TransactionInputs, r \in 1..NumRand : createTransaction(p, d, r)
  \/ \E p \in Procs, id \in KnownIds("txn") : getTransactionById(p, id)
  \/ \E p \in Procs, id \in KnownIds("txn"), u \in UpdateInputs : updateTransaction(p, id, u)
  \/ \E p \in Procs, id \in KnownIds("txn") : deleteTransaction(p, id)
  \/ \E p \in Procs, r \in 1..NumRand : Check(p, r)
  \/ Steps

Spec == Init /\ [][NextTxn]_vars

\* The user store.
NextUsers ==
  \/ \E p \in Procs, d \in UserInputs : createUser(p, d)
  \/ \E p \in Procs, r \in 1..NumRand : Check(p, r)
  \/ Steps

SpecUsers == Init /\ [][NextUsers]_vars

\* A caller verifies one of the values callers present.
Verify ==
  /\ result.op = "none"
  /\ \E input \in TokenInputs : VerifyToken(input)

\* A caller refreshes one of the values callers present.
Refresh ==
  /\ result.op = "none"
  /\ \E input \in TokenInputs : RefreshToken(input)

\* A caller verifies the issued token with one character of its payload
\* segment replaced by another.
VerifyTampered ==
  /\ result.op = "none"
  /\ issued.by # "none"
  /\ \E pos \in PayloadPositions(issued.token), ch \in TamperChars :
       /\ ch # issued.token[pos]
       /\ VerifyToken(TamperedInput(pos, ch))

\* The token service.
NextToken ==
  \/ \E d \in TokenTicks : TokenTick(d)
  \/ \E payload \in ClaimInputs, elapsed \in 0..MaxElapsed : GenerateToken(payload, elapsed)
  \/ Verify
  \/ Refresh
  \/ Continue

SpecToken == InitToken /\ [][NextToken]_vars

\* The token service when issued tokens are altered.
NextTamper ==
  \/ \E payload \in ClaimInputs, elapsed \in 0..MaxElapsed : GenerateToken(payload, elapsed)
  \/ VerifyTampered
  \/ Continue

SpecTamper == Init /\ [][NextTamper]_vars

\* The transaction store with one caller at a time: each call settles before
\* the next starts.
Caller == 1

NextStore ==
  \/ \E d \in StoreInputs, r \in 1..NumRand : createTransaction(Caller, d, r)
  \/ \E id \in KnownIds("txn") : getTransactionById(Caller, id)
  \/ \E id \in KnownIds("txn"), u \in UpdateInputs \cup AmountPayloads \cup FieldPayloads :
       updateTransaction(Caller, id, u)
  \/ \E id \in KnownIds("txn") : deleteTransaction(Caller, id)
  \/ \E id \in KnownIds("txn") \cup {MissingId}, u \in UpdateInputs : updateInFile(Caller, id, u)
  \/ \E id \in KnownIds("txn") \cup {MissingId} : deleteFromFile(Caller, id)
  \/ \E r \in 1..NumRand : Check(Caller, r)
  \/ Read(Caller)
  \/ WriteOpen(Caller)
  \/ WriteFlush(Caller)
  \/ Tick

SpecStore == Init /\ [][NextStore]_vars

\* Updates through updateInFile, one caller at a time; the k-th create draws
\* the k-th random suffix.
NextMerge ==
  \/ \E d \in TransactionInputs : createTransaction(Caller, d, (calls % NumRand) + 1)
  \/ \E id \in KnownIds("txn"), u \in UpdateInputs \cup FieldPayloads :
       updateTransaction(Caller, id, u)
  \/ \E d \in { u \in UserInputs : u.email = Email_a } : createUser(Caller, d)
  \/ \E id \in KnownIds("user"), u \in PreferenceInputs : updatePreferences(Caller, id, u)
  \/ Check(Caller, (calls % NumRand) + 1)
  \/ Read(Caller)
  \/ WriteOpen(Caller)
  \/ WriteFlush(Caller)
  \/ Tick

SpecMerge == Init /\ [][NextMerge]_vars

(***************************************************************************)
(* What the callers have seen, and sequential application of write calls.  *)
(***************************************************************************)
Quiescent == \A p \in Procs : procs[p].pc = "idle"

WriteOps == {"createTransaction", "createUser", "updateTransaction", "deleteTransaction"}

\* The write calls that returned successfully, in the order they returned.
SuccessfulWrites ==
  SelectSeq(returned, LAMBDA c : c.kind = "ok" /\ c.op \in WriteOps)

\* One write call applied alone to the array `data`.
ApplyCall(data, c) ==
  CASE c.op \in {"createTransaction", "createUser"} ->
         [ok |-> TRUE, data |-> Append(data, c.arg)]
    [] c.op = "updateTransaction" ->
         IF findIndex(data, c.id) = 0 THEN [ok |-> FALSE, data |-> data]
         ELSE [ok |-> TRUE, data |-> updatedData(data, findIndex(data, c.id), c.arg, c.at)]
    [] OTHER ->
         IF findIndex(data, c.id) = 0 THEN [ok |-> FALSE, data |-> data]
         ELSE [ok |-> TRUE, data |-> filterOut(data, c.id)]

\* The calls cs applied one after another in the order `order`, from `data`.
RECURSIVE ApplyInOrder(_, _, _, _)
ApplyInOrder(data, cs, order, i) ==
  IF i > Len(order) THEN [ok |-> TRUE, data |-> data]
  ELSE LET one == ApplyCall(data, cs[order[i]])
       IN IF ~one.ok THEN one ELSE ApplyInOrder(one.data, cs, order, i + 1)

Orders(n) == { f \in [1..n -> 1..n] : \A i, j \in 1..n : f[i] = f[j] => i = j }

CallsOn(cs, coll) ==
  SelectSeq(cs, LAMBDA c : (c.op = "createUser") = (coll = "users"))

\* The file of `coll` is what some sequential order of the successful writes leaves.
SerialOutcome(coll) ==
  LET cs == CallsOn(SuccessfulWrites, coll)
      got == readFile(files[coll])
  IN /\ got.ok
     /\ \E order \in Orders(Len(cs)) :
          LET out == ApplyInOrder(<<>>, cs, order, 1)
          IN out.ok /\ out.data = got.data

(***************************************************************************)
(* C1. N concurrent appends to one collection, from the empty store, leave *)
(* exactly N records once all have settled: no appended record is lost.    *)
(* Stated for the behaviours in which every call so far is an append that  *)
(* returned its item.                                                      *)
(***************************************************************************)
OnlyAppendsReturned ==
  \A i \in 1..Len(returned) :
    returned[i].op = "createTransaction" /\ returned[i].kind = "ok"

\* No two creates drew the same identifier.
DistinctIdsDrawn ==
  \A i, j \in 1..Len(returned) :
    (/\ returned[i].op = "createTransaction"
     /\ returned[j].op = "createTransaction"
     /\ returned[i].id = returned[j].id) => i = j

C1_AppendsAllPersisted ==
  (Quiescent /\ OnlyAppendsReturned /\ DistinctIdsDrawn) =>
     /\ readFile(files["transactions"]).ok
     /\ Len(readFile(files["transactions"]).data) = Len(returned)

(***************************************************************************)
(* C2. Writes (append, updateById, deleteById) on one collection file are  *)
(* serialized: once all calls have settled, the file is the result of      *)
(* applying the successfully returned calls in some sequential order.      *)
(***************************************************************************)
C2_WritesSerialized ==
  (Quiescent /\ DistinctIdsDrawn) => SerialOutcome("transactions")

(***************************************************************************)
(* C3. The users collection never holds two users with the same            *)
(* lower-cased email, whatever the interleaving of createUser calls.       *)
(***************************************************************************)
C3_EmailUnique ==
  LET users == files["users"].data
  IN \A i, j \in 1..Len(users) :
       ToLowerCase(users[i].email) = ToLowerCase(users[j].email) => i = j

(***************************************************************************)
(* What a result says of the value it was computed from.                   *)
(***************************************************************************)
\* The three claims a caller supplies, as carried by the object obj.
SameClaims(obj, claims) ==
  /\ ObjGet(obj, K_sub) = ObjGet(claims, K_sub)
  /\ ObjGet(obj, K_email) = ObjGet(claims, K_email)
  /\ ObjGet(obj, K_type) = ObjGet(claims, K_type)

\* The value verified or refreshed was signed with the server's secret and
\* carries an expiry.
CorrectlySigned == result.src \in {"issued", "signed"}

\* The clock, in seconds, when the result was computed.
ResultNow == nowSeconds(result.ms)

\* The payload a token carries, read back from its text.
IssuedBody == JSONParse(Base64Decode(Split(issued.token)[2])).obj

(***************************************************************************)
(* C4, as amended.  Replacing one character of the payload segment of an   *)
(* issued token by a different character makes verifyToken fail, and never *)
(* return claims: with InvalidSignature, unless the character put in is    *)
(* '.', which makes a fourth segment and fails with InvalidFormat.         *)
(***************************************************************************)
C4_TamperRejected ==
  (result.op = "verify" /\ result.src = "tampered") =>
     result.kind = (IF result.ch = DOT THEN "InvalidFormat" ELSE "InvalidSignature")

\* A payload character was replaced by one of the base64 alphabet and the
\* token was refused for its signature.
C4_Witness ==
  /\ result.op = "verify"
  /\ result.src = "tampered"
  /\ result.ch = 65
  /\ result.kind = "InvalidSignature"

\* C4 as stated: every single-character replacement in the payload segment
\* fails with InvalidSignature and with no other kind.
C4_AlwaysInvalidSignature ==
  (result.op = "verify" /\ result.src = "tampered") => result.kind = "InvalidSignature"

(***************************************************************************)
(* C5. For a correctly signed token, verifyToken fails with Expired when   *)
(* its expiry is before the clock (in seconds) and succeeds when it is     *)
(* not: the valid signature never makes an expired token verify.           *)
(***************************************************************************)
C5_Expiry ==
  (result.op = "verify" /\ CorrectlySigned) =>
     result.kind = (IF result.exp < ResultNow THEN "Expired" ELSE "ok")

\* A token issued by generateToken is refused once its expiry has passed.
C5_Witness ==
  /\ result.op = "verify"
  /\ result.src = "issued"
  /\ result.exp < ResultNow
  /\ result.kind = "Expired"

C7_RefreshOutcome ==
  (result.op = "refresh") =>
     /\ (result.kind = "ok") <=> (CorrectlySigned /\ result.exp >= ResultNow)
     /\ (result.kind = "ok") =>
          /\ issued.by = "refresh"
          /\ issued.t1 = result.ms
          /\ SameClaims(IssuedBody, result.claims)
          /\ ObjGet(IssuedBody, K_iat) = Num(nowSeconds(issued.t1))
          /\ ObjGet(IssuedBody, K_exp) = Num(nowSeconds(issued.t2) + TokenLifetime)

\* A refused refresh leaves the last issued token as it was.
C7_RefusalIssuesNothing ==
  (result'.op = "refresh" /\ result'.kind # "ok") => UNCHANGED <<issued, issues, clock>>

C7_Refresh == [][C7_RefusalIssuesNothing]_vars /\ []C7_RefreshOutcome

\* A token was refreshed some time after its issue: the new token has the
\* old claims and a later expiry.
C7_Witness ==
  /\ result.op = "refresh"
  /\ result.src = "issued"
  /\ result.kind = "ok"
  /\ issued.by = "refresh"
  /\ SameClaims(IssuedBody, result.claims)
  /\ ObjGet(IssuedBody, K_exp).n > result.exp

(***************************************************************************)
(* C8. Every failure of verifyToken is one of InvalidFormat,               *)
(* InvalidSignature or Expired.                                            *)
(***************************************************************************)
C8_ThreeKinds ==
  (result.op = "verify") =>
     result.kind \in {"ok", "InvalidFormat", "InvalidSignature", "Expired"}

(***************************************************************************)
(* C9. Every token from generateToken has iat equal to the clock (in       *)
(* seconds) at issue and exp - iat equal to the token lifetime.            *)
(***************************************************************************)
C9_IssuedLifetime ==
  (issued.by # "none") =>
     /\ ObjGet(IssuedBody, K_iat) = Num(nowSeconds(issued.t1))
     /\ ObjGet(IssuedBody, K_exp).n - ObjGet(IssuedBody, K_iat).n = TokenLifetime

(***************************************************************************)
(* C10. Record lifecycle: once all calls have settled, getById(id) returns *)
(* the record if and only if a create produced the id and no delete of it  *)
(* has succeeded since: a created record does not disappear without a      *)
(* delete, and a deleted one does not reappear.                            *)
(***************************************************************************)
LifecycleEvents(id) ==
  { i \in 1..Len(returned) :
      /\ returned[i].kind = "ok"
      /\ returned[i].id = id
      /\ returned[i].op \in {"createTransaction", "deleteTransaction"} }

Last(S) == CHOOSE i \in S : \A j \in S : j <= i

Live(id) ==
  /\ LifecycleEvents(id) # {}
  /\ returned[Last(LifecycleEvents(id))].op = "createTransaction"

\* getTransactionById(id) returns the record, run now.
getByIdReturns(id) ==
  /\ readFile(files["transactions"]).ok
  /\ findIndex(readFile(files["transactions"]).data, id) # 0

C10_Lifecycle ==
  (Quiescent /\ DistinctIdsDrawn) => \A id \in KnownIds("txn") : getByIdReturns(id) <=> Live(id)


(***************************************************************************)
(* C11. Identifiers are immutable and unique: the identifiers stored in a  *)
(* collection are pairwise distinct, and each is the one a create assigned *)
(* (no update changes it).  Stated for callers that run one at a time and  *)
(* creates that drew different identifiers.                                *)
(***************************************************************************)
CreatedIds ==
  { returned[i].id : i \in { j \in 1..Len(returned) :
       returned[j].op = "createTransaction" /\ returned[j].kind = "ok" } }

C11_IdsImmutableUnique ==
  DistinctIdsDrawn =>
    LET data == files["transactions"].data
    IN /\ \A i, j \in 1..Len(data) : data[i].id = data[j].id => i = j
       /\ \A i \in 1..Len(data) : data[i].id \in CreatedIds

(***************************************************************************)
(* C12. Timestamps: every stored record has updatedAt >= createdAt, and a  *)
(* successful update leaves the record with updatedAt equal to the time of *)
(* that update, whatever the partial payload.  Stated for callers that run *)
(* one at a time.                                                          *)
(***************************************************************************)
\* The call that settled last.
LastReturned == returned[Len(returned)]

C12_Timestamps ==
  LET data == files["transactions"].data
  IN /\ \A i \in 1..Len(data) : data[i].updatedAt >= data[i].createdAt
     /\ (/\ Quiescent
         /\ returned # <<>>
         /\ LastReturned.op = "updateTransaction"
         /\ LastReturned.kind = "ok"
         /\ "id" \notin DOMAIN LastReturned.arg) =>
           /\ findIndex(data, LastReturned.id) # 0
           /\ data[findIndex(data, LastReturned.id)].updatedAt = LastReturned.at

(***************************************************************************)
(* C13. Amount bound: every persisted transaction has                      *)
(* 0 < amount <= the configured maximum.                                   *)
(***************************************************************************)
C13_AmountBound ==
  LET data == files["transactions"].data
  IN \A i \in 1..Len(data) : data[i].amount > 0 /\ data[i].amount <= MaxAmount

(***************************************************************************)
(* C14, as amended.  An update through updateInFile is a field merge over  *)
(* the collection as the update read it: in the updated record every field *)
(* named in the partial payload other than updatedAt takes the supplied    *)
(* value, every field not named other than updatedAt keeps its value, and  *)
(* updatedAt is the time of the update; every other record is unchanged.   *)
(* updatePreferences hands updateInFile the old preferences overridden by  *)
(* the supplied keys.  With one caller at a time the stored record shows   *)
(* the supplied values once the update has returned.                       *)
(***************************************************************************)
MergedRecord(old, partial, new, now) ==
  /\ DOMAIN new = (DOMAIN old) \cup (DOMAIN partial) \cup {"updatedAt"}
  /\ \A k \in (DOMAIN partial) \ {"updatedAt"} : new[k] = partial[k]
  /\ \A k \in (DOMAIN old) \ ((DOMAIN partial) \cup {"updatedAt"}) : new[k] = old[k]
  /\ new.updatedAt = now

\* p is at the read of an updateInFile that finds its record.
UpdateReads(p) ==
  /\ procs[p].pc = "read"
  /\ procs[p].op \in UpdateOps
  /\ procs'[p].pc = "write"

C14_MergeStep ==
  \A p \in Procs :
    UpdateReads(p) =>
      LET old == files[procs[p].coll].data
          index == findIndex(old, procs[p].id)
          new == procs'[p].data
      IN /\ Len(new) = Len(old)
         /\ \A i \in 1..Len(old) :
              IF i = index THEN MergedRecord(old[i], procs[p].arg, new[i], clock)
              ELSE new[i] = old[i]

C14_PreferencesStep ==
  \A p \in Procs :
    (/\ procs[p].pc = "check"
     /\ procs[p].op = "updatePreferences"
     /\ procs'[p].pc = "read") =>
      LET users == files["users"].data
          was == users[findIndex(users, procs[p].id)].preferences
          partial == procs'[p].arg
      IN /\ DOMAIN partial = {"preferences"}
         /\ DOMAIN partial.preferences = (DOMAIN was) \cup (DOMAIN procs[p].req)
         /\ \A k \in DOMAIN procs[p].req : partial.preferences[k] = procs[p].req[k]
         /\ \A k \in (DOMAIN was) \ (DOMAIN procs[p].req) : partial.preferences[k] = was[k]

\* The collection an operation works on.
CollectionOf(op) == IF op \in {"createUser", "updatePreferences"} THEN "users" ELSE "transactions"

\* The record of the call that settled last, as stored now.
LastStored ==
  LET data == files[CollectionOf(LastReturned.op)].data
  IN data[findIndex(data, LastReturned.id)]

\* An update that named no identifier has just returned and no call is in flight.
UpdateReturned ==
  /\ Quiescent
  /\ returned # <<>>
  /\ LastReturned.op \in UpdateOps
  /\ LastReturned.kind = "ok"
  /\ "id" \notin DOMAIN LastReturned.arg

C14_Stored ==
  UpdateReturned =>
    /\ findIndex(files[CollectionOf(LastReturned.op)].data, LastReturned.id) # 0
    /\ \A k \in (DOMAIN LastReturned.arg) \ {"updatedAt"} : LastStored[k] = LastReturned.arg[k]
    /\ LastStored.updatedAt = LastReturned.at
    /\ (LastReturned.op = "updatePreferences") =>
         \A k \in DOMAIN LastReturned.req : LastStored.preferences[k] = LastReturned.req[k]

C14_Merge == [][C14_MergeStep /\ C14_PreferencesStep]_vars /\ []C14_Stored

\* An amount was updated some time after the record was created: the record
\* has the new amount, its description as before and a later updatedAt.
C14_Witness ==
  /\ UpdateReturned
  /\ LastReturned.op = "updateTransaction"
  /\ LastReturned.arg = [amount |-> 75]
  /\ LastStored.amount = 75
  /\ LastStored.description = "Lunch"
  /\ LastStored.updatedAt > LastStored.createdAt

\* C14 as stated: every named field takes the new value and every field not
\* named keeps its previous value.
C14_EveryFieldStep ==
  \A p \in Procs :
    UpdateReads(p) =>
      LET old == files[procs[p].coll].data
          index == findIndex(old, procs[p].id)
          new == procs'[p].data
      IN /\ \A k \in DOMAIN procs[p].arg : new[index][k] = procs[p].arg[k]
         /\ \A k \in (DOMAIN old[index]) \ (DOMAIN procs[p].arg) : new[index][k] = old[index][k]

C14_EveryField == [][C14_EveryFieldStep]_vars

(***************************************************************************)
(* C15. An update or delete by an id that no record has fails with         *)
(* NotFound: such a call fails with a storage error only when the file     *)
(* could not be read.                                                      *)
(***************************************************************************)
C15_NotFoundKind ==
  \A i \in 1..Len(returned) :
    (/\ returned[i].op \in UpdateOps \cup DeleteOps
     /\ returned[i].kind # "ok"
     /\ returned[i].cause # "readFile") => returned[i].kind = "NotFoundError"

(***************************************************************************)
(* C16. Write atomicity: a read that overlaps a write of the same          *)
(* collection sees the complete sequence from before or after the write,   *)
(* so no call fails because the file it read was partly written.           *)
(***************************************************************************)
C16_NoTornRead ==
  \A i \in 1..Len(returned) : returned[i].cause # "readFile"

(***************************************************************************)
(* Dates.  A time value is the number of whole seconds since the epoch     *)
(* (JavaScript counts milliseconds; every date below falls on a whole      *)
(* second).  The server's zone is UTC, so the local fields of a Date are   *)
(* its UTC fields.  A date string is the tuple of the fields it spells:    *)
(* <<2024, 1, 31, 12, 0, 0>> is "2024-01-31T12:00:00.000Z".                *)
(***************************************************************************)
SecondsPerDay == 86400

\* Days from the epoch to the civil day y-m-d (m in 1..12).
DaysFromCivil(y, m, d) ==
  LET yy == IF m <= 2 THEN y - 1 ELSE y
      era == yy \div 400
      yoe == yy - era * 400
      mp == IF m > 2 THEN m - 3 ELSE m + 9
      doy == ((153 * mp + 2) \div 5) + d - 1
      doe == yoe * 365 + (yoe \div 4) - (yoe \div 100) + doy
  IN era * 146097 + doe - 719468

\* The civil day of a day number: [year, month (1..12), day].
CivilFromDays(z) ==
  LET zz == z + 719468
      era == zz \div 146097
      doe == zz - era * 146097
      yoe == (doe - (doe \div 1460) + (doe \div 36524) - (doe \div 146096)) \div 365
      doy == doe - (365 * yoe + (yoe \div 4) - (yoe \div 100))
      mp == (5 * doy + 2) \div 153
      d == doy - ((153 * mp + 2) \div 5) + 1
      m == IF mp < 10 THEN mp + 3 ELSE mp - 9
  IN [year |-> IF m <= 2 THEN yoe + era * 400 + 1 ELSE yoe + era * 400,
      month |-> m, day |-> d]

\* MakeDay of ECMAScript: the month index may lie outside 0..11 and the day
\* outside the month; both carry.
MakeDay(year, monthIndex, day) ==
  DaysFromCivil(year + (monthIndex \div 12), (monthIndex % 12) + 1, 1) + day - 1

\* new Date(year, monthIndex, day): midnight of that day.
NewDate(year, monthIndex, day) == MakeDay(year, monthIndex, day) * SecondsPerDay

\* new Date(string) for a date string.
ParseDate(iso) ==
  DaysFromCivil(iso[1], iso[2], iso[3]) * SecondsPerDay + iso[4] * 3600 + iso[5] * 60 + iso[6]

getFullYear(t) == CivilFromDays(t \div SecondsPerDay).year

\* 0 for January
getMonth(t) == CivilFromDays(t \div SecondsPerDay).month - 1

getDate(t) == CivilFromDays(t \div SecondsPerDay).day

\* date.setMonth(monthIndex): the day of the month and the time of day stay,
\* and a day the month does not have carries into the next month.
setMonth(t, monthIndex) ==
  MakeDay(getFullYear(t), monthIndex, getDate(t)) * SecondsPerDay + (t % SecondsPerDay)

\* `${year}-${month padded to two digits}`, as the pair it spells.
MonthKey(year, month) == <<year, month>>

(***************************************************************************)
(* The ledger the query and summary behaviours start from: transactions    *)
(* already in the file, of two users, around the turn of a month.          *)
(***************************************************************************)
MaxRecords == 3    \* transactions in the file

Stored(n, userId, type, category, amount, date) ==
  [id |-> newId("txn", n, 1), userId |-> userId, type |-> type, category |-> category,
   amount |-> amount, date |-> date]

LedgerRecords ==
  { Stored(1, "u1", "income", "Salary", 100, <<2024, 1, 31, 12, 0, 0>>),
    Stored(2, "u1", "expense", "Food", 30, <<2024, 1, 31, 23, 59, 59>>),
    Stored(3, "u1", "expense", "Food", 20, <<2024, 2, 1, 0, 0, 0>>),
    Stored(4, "u1", "expense", "Rent", 20, <<2023, 12, 31, 23, 59, 59>>),
    Stored(5, "u1", "income", "Salary", 30, <<2024, 1, 1, 0, 0, 0>>),
    Stored(6, "u2", "expense", "Food", 30, <<2024, 1, 31, 12, 0, 0>>),
    Stored(7, "u1", "expense", "Food", 30, <<2024, 1, 31, 0, 0, 0>>),
    Stored(8, "u1", "expense", "Rent", 20, <<2024, 1, 31, 12, 0, 0>>) }

Ledgers ==
  { data \in UNION { [1..n -> LedgerRecords] : n \in 0..MaxRecords } :
      \A i, j \in 1..Len(data) : data[i] = data[j] => i = j }

UserIds == {"u1", "u2"}

\* Filters a caller may pass: each field supplied or not.
FilterInputs ==
  { [k \in keys |->
       CASE k = "type" -> type
         [] k = "category" -> "Food"
         [] k = "startDate" -> startDate
         [] k = "endDate" -> endDate] :
      keys \in SUBSET {"type", "category", "startDate", "endDate"},
      type \in {"income", "expense"},
      startDate \in {<<2024, 1, 1, 0, 0, 0>>, <<2024, 1, 31, 12, 0, 0>>},
      endDate \in {<<2024, 1, 31, 0, 0, 0>>, <<2024, 1, 31, 23, 59, 59>>} }

(***************************************************************************)
(* TransactionService.getUserTransactions                                  *)
(***************************************************************************)
matchesEnd_exclusive(t, filters) ==
  "endDate" \in DOMAIN filters => ParseDate(t.date) < ParseDate(filters.endDate)

\* the filter on filters.endDate
matchesEnd(t, filters) ==
  "endDate" \in DOMAIN filters => ParseDate(t.date) <= ParseDate(filters.endDate)

\* the four filters, each applied when its field is supplied
matchesFilters(t, filters) ==
  /\ "type" \in DOMAIN filters => t.type = filters.type
  /\ "category" \in DOMAIN filters => t.category = filters.category
  /\ "startDate" \in DOMAIN filters => ParseDate(t.date) >= ParseDate(filters.startDate)
  /\ matchesEnd(t, filters)

\* One element put into a sequence sorted by the comparator
\* (a, b) => new Date(b.date) - new Date(a.date), behind its equals.
RECURSIVE insertByDate(_, _)
insertByDate(sorted, t) ==
  IF sorted = <<>> THEN <<t>>
  ELSE IF ParseDate(Head(sorted).date) - ParseDate(t.date) < 0
         THEN <<t>> \o sorted
         ELSE <<Head(sorted)>> \o insertByDate(Tail(sorted), t)

\* transactions.sort(comparator): stable
RECURSIVE sortByDate(_, _)
sortByDate(transactions, n) ==
  IF n = 0 THEN <<>>
  ELSE insertByDate(sortByDate(transactions, n - 1), transactions[n])

getUserTransactions(data, userId, filters) ==
  LET \* FileStorageService.findInFile(file, t => t.userId === userId)
      transactions == SelectSeq(data, LAMBDA t : t.userId = userId)
      filtered == SelectSeq(transactions, LAMBDA t : matchesFilters(t, filters))
  IN sortByDate(filtered, Len(filtered))

(***************************************************************************)
(* Summaries.  A number that toFixed(2) produced is held as its count of   *)
(* hundredths: 50.00 is 5000, 33.33 is 3333.                               *)
(***************************************************************************)
NoFilters == [k \in {} |-> 0]

\* month = null
NoMonth == <<>>

\* "2024-01" is <<2024, 1>>
MonthInputs == {NoMonth, <<2024, 1>>, <<2024, 2>>, <<2023, 12>>}

\* the period field: month || 'all-time'
Period(month) == IF month = NoMonth THEN <<"all-time">> ELSE month

\* the sum of the amounts of the first n elements of a sequence
RECURSIVE SumAmounts(_, _)
SumAmounts(transactions, n) ==
  IF n = 0 THEN 0 ELSE SumAmounts(transactions, n - 1) + transactions[n].amount

IsIncome(t) == t.type = "income"

IsOther(t) == t.type # "income"

\* parseFloat(((num / den) * 100).toFixed(2)) in hundredths: the nearest
\* hundredth, a tie going away from zero.
toFixed2(num, den) ==
  IF num >= 0 THEN (2 * num * 10000 + den) \div (2 * den)
  ELSE 0 - ((2 * (0 - num) * 10000 + den) \div (2 * den))

\* totalIncome > 0 ? (netSavings / totalIncome) * 100 : 0, through toFixed(2)
savingsPercentage(netSavings, totalIncome) ==
  IF totalIncome > 0 THEN toFixed2(netSavings, totalIncome) ELSE 0

\* incomeByCategory / expenseByCategory as the forEach builds them
byCategory(transactions) ==
  [c \in { transactions[i].category : i \in 1..Len(transactions) } |->
     LET inCategory == SelectSeq(transactions, LAMBDA t : t.category = c)
     IN SumAmounts(inCategory, Len(inCategory))]

\* the month filter of the file-backed getSummary
inMonth(t, month) ==
  LET date == ParseDate(t.date)
  IN getFullYear(date) = month[1] /\ getMonth(date) = month[2] - 1

\* TransactionService.getSummary (file store)
getSummary(data, userId, month) ==
  LET transactions == getUserTransactions(data, userId, NoFilters)
      filtered == IF month = NoMonth THEN transactions
                  ELSE SelectSeq(transactions, LAMBDA t : inMonth(t, month))
      incomes == SelectSeq(filtered, IsIncome)
      others == SelectSeq(filtered, IsOther)
      totalIncome == SumAmounts(incomes, Len(incomes))
      totalExpense == SumAmounts(others, Len(others))
      netSavings == totalIncome - totalExpense
  IN [totalIncome |-> totalIncome,
      totalExpense |-> totalExpense,
      netSavings |-> netSavings,
      savingsPercentage |-> savingsPercentage(netSavings, totalIncome),
      incomeByCategory |-> byCategory(incomes),
      expenseByCategory |-> byCategory(others),
      transactionCount |-> Len(filtered),
      period |-> Period(month)]

\* the $match stage on the date: startDate <= date <= endDate with
\* startDate = new Date(year, monthNum - 1, 1), endDate = new Date(year, monthNum, 0)
matchMonth(t, month) ==
  LET startDate == NewDate(month[1], month[2] - 1, 1)
      endDate == NewDate(month[1], month[2], 0)
  IN ParseDate(t.date) >= startDate /\ ParseDate(t.date) <= endDate

\* TransactionService.getSummary (MongoDB): $match, $group by type, then the
\* forEach over the groups.  The ledgers hold one type other than income.
getSummaryMongo(data, userId, month) ==
  LET matched == SelectSeq(data, LAMBDA t :
                    t.userId = userId /\ (month # NoMonth => matchMonth(t, month)))
      groups == { matched[i].type : i \in 1..Len(matched) }
      total(type) == LET group == SelectSeq(matched, LAMBDA t : t.type = type)
                     IN SumAmounts(group, Len(group))
      totalIncome == IF "income" \in groups THEN total("income") ELSE 0
      totalExpense == IF groups \ {"income"} = {} THEN 0
                      ELSE total(CHOOSE g \in groups \ {"income"} : TRUE)
      netSavings == totalIncome - totalExpense
  IN [totalIncome |-> totalIncome,
      totalExpense |-> totalExpense,
      netSavings |-> netSavings,
      savingsPercentage |-> savingsPercentage(netSavings, totalIncome),
      period |-> Period(month)]

(***************************************************************************)
(* Monthly comparison.                                                     *)
(***************************************************************************)
\* Values of `new Date()` when the comparison runs.
NowInputs ==
  { <<2024, 1, 15, 12, 0, 0>>, <<2024, 3, 31, 12, 0, 0>>, <<2024, 5, 29, 12, 0, 0>> }

\* Numbers of months a caller may ask for.
MonthsInputs == {1, 2, 3, 13}

\* The month key of iteration i of the loop:
\*   date = new Date(); date.setMonth(date.getMonth() - i)
monthKeyAt(now, i) ==
  LET date == setMonth(now, getMonth(now) - i)
  IN MonthKey(getFullYear(date), getMonth(date) + 1)

Reverse(seq) == [i \in 1..Len(seq) |-> seq[Len(seq) + 1 - i]]

\* TransactionService.getMonthlyComparison (MongoDB)
getMonthlyComparison(data, userId, months, now) ==
  Reverse([k \in 1..months |->
             LET monthKey == monthKeyAt(now, k - 1)
             IN [month |-> monthKey] @@ getSummaryMongo(data, userId, monthKey)])

\* Math.min(parseInt(months) || 3, 12)
numMonths(months) == IF months = 0 THEN 3 ELSE IF months < 12 THEN months ELSE 12

\* SummaryController.getMonthlyComparison: DatabaseService.find is the mock,
\* which returns no documents.
controllerMonthlyComparison(months, now) ==
  Reverse([k \in 1..numMonths(months) |->
             [month |-> monthKeyAt(now, k - 1), totalIncome |-> 0, totalExpense |-> 0,
              netSavings |-> 0, transactionCount |-> 0]])

(***************************************************************************)
(* Query and summary behaviours: a caller asks, and takes the answer.      *)
(***************************************************************************)
Answer(op, input, body) == [op |-> op, input |-> input, kind |-> "ok", body |-> body]

Documents == files["transactions"].data

GetUserTransactions(userId, filters) ==
  /\ result.op = "none"
  /\ result' = Answer("getUserTransactions", [userId |-> userId, filters |-> filters],
                      getUserTransactions(readFile(files["transactions"]).data, userId, filters))
  /\ UNCHANGED <<clock, fileVars, issued, ticks, issues, dbVars>>

GetSummary(userId, month) ==
  /\ result.op = "none"
  /\ result' = Answer("getSummary", [userId |-> userId, month |-> month],
                      getSummary(readFile(files["transactions"]).data, userId, month))
  /\ UNCHANGED <<clock, fileVars, issued, ticks, issues, dbVars>>

\* The MongoDB service over the same documents.
GetSummaryMongo(userId, month) ==
  /\ result.op = "none"
  /\ result' = Answer("getSummaryMongo", [userId |-> userId, month |-> month],
                      getSummaryMongo(Documents, userId, month))
  /\ UNCHANGED <<clock, fileVars, issued, ticks, issues, dbVars>>

GetMonthlyComparison(userId, months, now) ==
  /\ result.op = "none"
  /\ result' = Answer("getMonthlyComparison", [userId |-> userId, months |-> months, now |-> now],
                      getMonthlyComparison(Documents, userId, months, ParseDate(now)))
  /\ UNCHANGED <<clock, fileVars, issued, ticks, issues, dbVars>>

ControllerMonthlyComparison(months, now) ==
  /\ result.op = "none"
  /\ result' = Answer("controllerMonthlyComparison", [months |-> months, now |-> now],
                      controllerMonthlyComparison(months, ParseDate(now)))
  /\ UNCHANGED <<clock, fileVars, issued, ticks, issues, dbVars>>

InitLedger ==
  /\ clock = 0
  /\ \E data \in Ledgers :
       files = [c \in Collections |->
                  IF c = "transactions"
                    THEN [st |-> "ok", data |-> data, size |-> Len(data)]
                    ELSE AbsentFile]
  /\ procs = [p \in Procs |-> IdleProc]
  /\ calls = 0
  /\ returned = <<>>
  /\ issued = NoToken
  /\ result = NoResult
  /\ ticks = 0
  /\ issues = 0
  /\ mongo = NotConnected
  /\ db = EmptyDatabase

\* Queries over a ledger.
NextQuery ==
  \/ \E userId \in UserIds, filters \in FilterInputs : GetUserTransactions(userId, filters)
  \/ Continue

SpecQuery == InitLedger /\ [][NextQuery]_vars

\* Summaries over a ledger.
NextSummary ==
  \/ \E userId \in UserIds, month \in MonthInputs : GetSummary(userId, month)
  \/ \E userId \in UserIds, month \in MonthInputs : GetSummaryMongo(userId, month)
  \/ \E userId \in UserIds, months \in MonthsInputs, now \in NowInputs :
       GetMonthlyComparison(userId, months, now)
  \/ \E months \in MonthsInputs, now \in NowInputs : ControllerMonthlyComparison(months, now)
  \/ Continue

SpecSummary == InitLedger /\ [][NextSummary]_vars

(***************************************************************************)
(* What a summary is about: the transactions of a user.                    *)
(***************************************************************************)
OwnedBy(userId) == SelectSeq(Documents, LAMBDA t : t.userId = userId)

AmountsOf(transactions, type) ==
  LET ofType == SelectSeq(transactions, LAMBDA t : t.type = type)
  IN SumAmounts(ofType, Len(ofType))

RECURSIVE SumValues(_, _)
SumValues(f, keys) ==
  IF keys = {} THEN 0
  ELSE LET k == CHOOSE x \in keys : TRUE
       IN f[k] + SumValues(f, keys \ {k})

SummaryFields ==
  {"totalIncome", "totalExpense", "netSavings", "savingsPercentage",
   "incomeByCategory", "expenseByCategory", "transactionCount"}

(***************************************************************************)
(* C17. Summary arithmetic: over all the transactions of a user,           *)
(* getSummary returns totalIncome = the sum of the amounts of the income   *)
(* records, totalExpense = the sum of the amounts of the expense records,  *)
(* netSavings = totalIncome - totalExpense, transactionCount = the number  *)
(* of records, incomeByCategory / expenseByCategory whose values sum to    *)
(* totalIncome / totalExpense, and savingsPercentage =                     *)
(* netSavings * 100 / totalIncome when totalIncome > 0 and 0 otherwise.    *)
(* savingsPercentage is held in hundredths, so the quotient is             *)
(* netSavings * 10000 / totalIncome.                                       *)
(***************************************************************************)
C17_SummaryArithmetic ==
  (result.op \in {"getSummary", "getSummaryMongo"} /\ result.input.month = NoMonth) =>
    LET b == result.body
        own == OwnedBy(result.input.userId)
        income == AmountsOf(own, "income")
        expense == AmountsOf(own, "expense")
    IN /\ SummaryFields \subseteq DOMAIN b
       /\ b.totalIncome = income
       /\ b.totalExpense = expense
       /\ b.netSavings = income - expense
       /\ b.transactionCount = Len(own)
       /\ SumValues(b.incomeByCategory, DOMAIN b.incomeByCategory) = income
       /\ SumValues(b.expenseByCategory, DOMAIN b.expenseByCategory) = expense
       /\ IF income > 0
            THEN b.savingsPercentage * income = (income - expense) * 10000
            ELSE b.savingsPercentage = 0

(***************************************************************************)
(* The window of a month: from the first day 00:00:00 to the last day      *)
(* 23:59:59, one second before the first day of the next month.            *)
(***************************************************************************)
WindowStart(month) == ParseDate(<<month[1], month[2], 1, 0, 0, 0>>)

WindowEnd(month) ==
  (IF month[2] = 12
     THEN ParseDate(<<month[1] + 1, 1, 1, 0, 0, 0>>)
     ELSE ParseDate(<<month[1], month[2] + 1, 1, 0, 0, 0>>)) - 1

InWindow(t, month) ==
  ParseDate(t.date) >= WindowStart(month) /\ ParseDate(t.date) <= WindowEnd(month)

(***************************************************************************)
(* C18. Month scoping: a summary scoped to a month covers exactly the      *)
(* user's transactions dated from the first day 00:00 to the last day      *)
(* 23:59:59 of that month: its totals are the sums over those, so a        *)
(* transaction at any time of the last day counts and one of an adjacent   *)
(* month does not.                                                         *)
(***************************************************************************)
C18_MonthScoping ==
  (result.op \in {"getSummary", "getSummaryMongo"} /\ result.input.month # NoMonth) =>
    LET scoped == SelectSeq(OwnedBy(result.input.userId),
                            LAMBDA t : InWindow(t, result.input.month))
    IN /\ result.body.totalIncome = AmountsOf(scoped, "income")
       /\ result.body.totalExpense = AmountsOf(scoped, "expense")

(***************************************************************************)
(* The calendar month j months before the month of `now`.                  *)
(***************************************************************************)
MonthsBack(now, j) ==
  LET index == now[1] * 12 + (now[2] - 1) - j
  IN <<index \div 12, (index % 12) + 1>>

Min(a, b) == IF a < b THEN a ELSE b

MonthCap == 12

(***************************************************************************)
(* C19. Monthly comparison: asked for N >= 1 months on any day, the result *)
(* has min(N, 12) entries, the k-th being the calendar month               *)
(* min(N, 12) - k months before the current one: each of the last          *)
(* min(N, 12) months once, oldest first, the current month last.           *)
(***************************************************************************)
C19_MonthlyComparison ==
  result.op \in {"getMonthlyComparison", "controllerMonthlyComparison"} =>
    LET n == Min(result.input.months, MonthCap)
    IN /\ Len(result.body) = n
       /\ \A k \in 1..Len(result.body) :
            result.body[k].month = MonthsBack(result.input.now, Len(result.body) - k)

(***************************************************************************)
(* What a query is to return: the records of the owner that match every    *)
(* field the filter supplies.                                              *)
(***************************************************************************)
Supplied(filters, field) == field \in DOMAIN filters

Wanted(t, userId, filters) ==
  /\ t.userId = userId
  /\ Supplied(filters, "type") => t.type = filters.type
  /\ Supplied(filters, "category") => t.category = filters.category
  /\ Supplied(filters, "startDate") => ParseDate(filters.startDate) <= ParseDate(t.date)
  /\ Supplied(filters, "endDate") => ParseDate(t.date) <= ParseDate(filters.endDate)

Occurrences(seq, t) == Cardinality({ i \in 1..Len(seq) : seq[i] = t })

(***************************************************************************)
(* C20. Query filtering and order: getUserTransactions returns exactly the *)
(* owner's records that match all supplied filter fields (type, category,  *)
(* startDate <= date <= endDate with both bounds inclusive), each once,    *)
(* the most recent first; no record of another user and no record failing  *)
(* a supplied field is returned.                                           *)
(***************************************************************************)
C20_FilterAndOrder ==
  result.op = "getUserTransactions" =>
    LET body == result.body
        userId == result.input.userId
        filters == result.input.filters
    IN /\ \A i \in 1..Len(body) : Wanted(body[i], userId, filters)
       /\ \A i \in 1..Len(Documents) :
            Occurrences(body, Documents[i]) =
              (IF Wanted(Documents[i], userId, filters) THEN 1 ELSE 0)
       /\ \A i, j \in 1..Len(body) :
            i < j => ParseDate(body[i].date) >= ParseDate(body[j].date)

\* A query with a date range returned a record dated at each end of the
\* range, in order, and left a record of the owner out.
C20_Witness ==
  /\ result.op = "getUserTransactions"
  /\ {"startDate", "endDate"} \subseteq DOMAIN result.input.filters
  /\ Len(result.body) >= 2
  /\ result.body[1].date = result.input.filters.endDate
  /\ result.body[Len(result.body)].date = result.input.filters.startDate
  /\ \E i \in 1..Len(Documents) :
       /\ Documents[i].userId = result.input.userId
       /\ Occurrences(result.body, Documents[i]) = 0

(***************************************************************************)
(* MongoDBService.find.  A collection is the sequence of its documents in  *)
(* insertion order.  A query names the fields that must match; gte and lte *)
(* are the bounds { $gte, $lte } on the date.                              *)
(***************************************************************************)
matchesQuery(t, query) ==
  /\ "userId" \in DOMAIN query => t.userId = query.userId
  /\ "type" \in DOMAIN query => t.type = query.type
  /\ "category" \in DOMAIN query => t.category = query.category
  /\ "gte" \in DOMAIN query => ParseDate(t.date) >= query.gte
  /\ "lte" \in DOMAIN query => ParseDate(t.date) <= query.lte

\* model.countDocuments(query)
countDocuments(docs, query) == Len(SelectSeq(docs, LAMBDA t : matchesQuery(t, query)))

\* The value a sort on `field` compares.
sortKey(t, field) == IF field = "date" THEN ParseDate(t.date) ELSE t[field]

\* .sort({ [field]: -1 }): descending, documents of equal key in insertion order
RECURSIVE insertDescending(_, _, _)
insertDescending(sorted, t, field) ==
  IF sorted = <<>> THEN <<t>>
  ELSE IF sortKey(Head(sorted), field) < sortKey(t, field)
         THEN <<t>> \o sorted
         ELSE <<Head(sorted)>> \o insertDescending(Tail(sorted), t, field)

RECURSIVE sortDescending(_, _, _)
sortDescending(docs, field, n) ==
  IF n = 0 THEN <<>>
  ELSE insertDescending(sortDescending(docs, field, n - 1), docs[n], field)

\* .skip(skip).limit(limit); a limit of 0 is no limit
skipLimit(docs, skip, limit) ==
  SubSeq(docs, skip + 1, IF limit = 0 THEN Len(docs) ELSE Min(skip + limit, Len(docs)))

\* model.find(query).sort(sort).skip(skip).limit(limit)
queryPage(docs, query, sort, skip, limit) ==
  LET matched == SelectSeq(docs, LAMBDA t : matchesQuery(t, query))
  IN skipLimit(sortDescending(matched, sort, Len(matched)), skip, limit)

\* Math.ceil(total / limit)
ceilDiv(total, limit) ==
  IF limit = 0 THEN (IF total = 0 THEN "NaN" ELSE "Infinity")
  ELSE (total + limit - 1) \div limit

\* The defaults of the options: skip = 0, limit = 10, sort = { createdAt: -1 }
DefaultLimit == 10

optionOr(options, key, default) == IF key \in DOMAIN options THEN options[key] ELSE default

\* the object find returns, from the count and the page it awaited
findResult(total, data, options) ==
  [data |-> data,
   total |-> total,
   skip |-> optionOr(options, "skip", 0),
   limit |-> optionOr(options, "limit", DefaultLimit),
   pages |-> ceilDiv(total, optionOr(options, "limit", DefaultLimit))]

\* MongoDBService.find when nothing else runs between its two awaits
find(docs, query, options) ==
  findResult(countDocuments(docs, query),
             queryPage(docs, query, optionOr(options, "sort", "createdAt"),
                       optionOr(options, "skip", 0), optionOr(options, "limit", DefaultLimit)),
             options)

\* DatabaseService.find, the placeholder the controllers call
mockFind(filters, pagination) ==
  LET skip == optionOr(pagination, "skip", 0)
      limit == optionOr(pagination, "limit", DefaultLimit)
  IN [data |-> <<>>, total |-> 0, page |-> (skip \div limit) + 1, limit |-> limit]

\* Queries and pages a caller may ask for: skip = (page - 1) * limit.
QueryInputs ==
  { [userId |-> "u1"], [userId |-> "u1", type |-> "expense"], [userId |-> "u2", type |-> "income"] }

PageInputs == {1, 2}

LimitInputs == {1, 2, DefaultLimit}

PaginationInputs ==
  { [skip |-> (page - 1) * limit, limit |-> limit, sort |-> "date"] :
      page \in PageInputs, limit \in LimitInputs }

Find(query, options) ==
  /\ result.op = "none"
  /\ result' = Answer("find", [query |-> query, options |-> options],
                      find(Documents, query, options))
  /\ UNCHANGED <<clock, fileVars, issued, ticks, issues, dbVars>>

MockFind(filters, pagination) ==
  /\ result.op = "none"
  /\ result' = Answer("mockFind", [query |-> filters, options |-> pagination],
                      mockFind(filters, pagination))
  /\ UNCHANGED <<clock, fileVars, issued, ticks, issues, dbVars>>

\* Paginated finds over a ledger, one caller at a time.
NextFind ==
  \/ \E query \in QueryInputs, options \in PaginationInputs : Find(query, options)
  \/ \E query \in QueryInputs, options \in PaginationInputs : MockFind(query, options)
  \/ Continue

SpecFind == InitLedger /\ [][NextFind]_vars

(***************************************************************************)
(* C21. Paginated find: every find result reports total = the number of    *)
(* records matching the filter, whatever skip and limit are,               *)
(* pages = ceil(total / limit), and data = the matching records from       *)
(* position skip on, at most limit of them; an empty match gives total 0,  *)
(* pages 0 and empty data.                                                 *)
(***************************************************************************)
C21_PaginatedFind ==
  result.op \in {"find", "mockFind"} =>
    LET b == result.body
        query == result.input.query
        skip == result.input.options.skip
        limit == result.input.options.limit
        matching == SelectSeq(Documents, LAMBDA t : matchesQuery(t, query))
        total == Len(matching)
        rest == IF total > skip THEN total - skip ELSE 0
    IN /\ {"data", "total", "pages"} \subseteq DOMAIN b
       /\ b.total = total
       /\ b.pages * limit >= total
       /\ (b.pages - 1) * limit < total \/ (total = 0 /\ b.pages = 0)
       /\ Len(b.data) = Min(limit, rest)
       /\ \A i \in 1..Len(b.data) : Occurrences(matching, b.data[i]) = 1
       /\ \A i, j \in 1..Len(b.data) : b.data[i] = b.data[j] => i = j

(***************************************************************************)
(* TransactionService.getUserTransactions (MongoDB)                        *)
(***************************************************************************)
\* the query built from userId and the filters supplied
mongoQuery(userId, filters) ==
  LET keys == {"userId"}
                \cup ({"type", "category"} \cap DOMAIN filters)
                \cup (IF "startDate" \in DOMAIN filters THEN {"gte"} ELSE {})
                \cup (IF "endDate" \in DOMAIN filters THEN {"lte"} ELSE {})
  IN [k \in keys |->
        CASE k = "userId" -> userId
          [] k = "gte" -> ParseDate(filters.startDate)
          [] k = "lte" -> ParseDate(filters.endDate)
          [] OTHER -> filters[k]]

\* options.limit || 10
limitOr(options) ==
  IF "limit" \in DOMAIN options /\ options.limit # 0 THEN options.limit ELSE DefaultLimit

getUserTransactionsMongo(docs, userId, filters, options) ==
  find(docs, mongoQuery(userId, filters),
       [skip |-> optionOr(options, "skip", 0), limit |-> limitOr(options),
        sort |-> optionOr(options, "sort", "date")])

(***************************************************************************)
(* The two services asked the same thing over the same records.            *)
(***************************************************************************)
NoOptions == [k \in {} |-> 0]

OptionInputs == {NoOptions, [limit |-> 2], [skip |-> 1]}

TypeFilters == { f \in FilterInputs : DOMAIN f \subseteq {"type"} }

CompareQueries(userId, filters, options) ==
  /\ result.op = "none"
  /\ result' = Answer("compareQueries",
                      [userId |-> userId, filters |-> filters, options |-> options],
                      [file |-> getUserTransactions(readFile(files["transactions"]).data,
                                                    userId, filters),
                       mongo |-> getUserTransactionsMongo(Documents, userId, filters, options)])
  /\ UNCHANGED <<clock, fileVars, issued, ticks, issues, dbVars>>

CompareSummaries(userId, month) ==
  /\ result.op = "none"
  /\ result' = Answer("compareSummaries", [userId |-> userId, month |-> month],
                      [file |-> getSummary(readFile(files["transactions"]).data, userId, month),
                       mongo |-> getSummaryMongo(Documents, userId, month)])
  /\ UNCHANGED <<clock, fileVars, issued, ticks, issues, dbVars>>

NextCompare ==
  \/ \E userId \in UserIds, filters \in TypeFilters, options \in OptionInputs :
       CompareQueries(userId, filters, options)
  \/ \E userId \in UserIds, month \in MonthInputs : CompareSummaries(userId, month)
  \/ Continue

SpecCompare == InitLedger /\ [][NextCompare]_vars

(***************************************************************************)
(* C22. Backend equivalence: over the same records, the file-backed and    *)
(* the document-backed service return the same records in the same order   *)
(* for the same getUserTransactions request, and the same summary (same    *)
(* fields, same totals) for the same getSummary request.                   *)
(***************************************************************************)
C22_BackendEquivalence ==
  /\ result.op = "compareQueries" => result.body.file = result.body.mongo.data
  /\ result.op = "compareSummaries" => result.body.file = result.body.mongo

(***************************************************************************)
(* MongoDBConnection.  A call runs to its first await in one step:         *)
(*   pc = "connecting"     awaiting mongoose.connect                       *)
(*   pc = "disconnecting"  awaiting mongoose.disconnect                    *)
(*   pc = "operating"      a store operation awaiting the database         *)
(* A settled call is recorded with what its caller got: the handle, or     *)
(* the error, and with when it began: after a completed disconnect()       *)
(* (afterClose), and after how many calls had settled (after).             *)
(***************************************************************************)
Handle == "connection"

ConnectOps == {"connect", "getInstance"}

StoreOps == {"create", "find", "update", "delete", "aggregate"}

Beginning == [afterClose |-> mongo.closed, after |-> Len(returned)]

Began(p, op, pc) == [IdleProc EXCEPT !.pc = pc, !.op = op, !.arg = Beginning]

Ended(op, kind, value, began) ==
  [op |-> op, kind |-> kind, value |-> value,
   afterClose |-> began.afterClose, after |-> began.after]

\* A caller asked for the connection: a completed shutdown is over.
reopened(op) == IF op \in ConnectOps THEN FALSE ELSE mongo.closed

\* connect() up to `await mongoose.connect(...)`, entered without the
\* already-connected check
connect_unchecked(p, op) ==
  /\ mongo' = [mongo EXCEPT !.pending = @ + 1,
                            !.attempts = @ + 1,
                            !.readyState = IF @ = "connected" THEN @ ELSE "connecting",
                            !.closed = reopened(op)]
  /\ procs' = [procs EXCEPT ![p] = Began(p, op, "connecting")]
  /\ UNCHANGED returned

\* connect(), as called by `op`: the handle at once when isConnected, else
\* an invocation of mongoose.connect
connect(p, op) ==
  IF mongo.isConnected
    THEN /\ returned' = Append(returned, Ended(op, "ok", Handle, Beginning))
         /\ UNCHANGED <<mongo, procs>>
    ELSE connect_unchecked(p, op)

\* getInstance(), as called by `op`
getInstance(p, op) ==
  IF mongo.instance # "null" /\ mongo.isConnected
    THEN /\ returned' = Append(returned, Ended(op, "ok", mongo.instance, Beginning))
         /\ UNCHANGED <<mongo, procs>>
    ELSE connect(p, op)

Call(p) ==
  /\ procs[p].pc = "idle"
  /\ calls < MaxCalls
  /\ calls' = calls + 1
  /\ UNCHANGED <<clock, files, tokVars, db>>

\* a caller calls MongoDBConnection.connect()
Connect(p) == Call(p) /\ connect(p, "connect")

\* a caller calls MongoDBConnection.getInstance()
GetInstance(p) == Call(p) /\ getInstance(p, "getInstance")

isConnectedAfterFailure_kept(was) == was

\* the catch of connect(): this.isConnected = false
isConnectedAfterFailure(was) == FALSE

\* mongoose.connect settles for p: resolved (this.instance, this.isConnected
\* are set and the listeners registered) or rejected.  A call that came
\* through a store operation goes on to operate.
ConnectSettles(p, resolved) ==
  /\ procs[p].pc = "connecting"
  /\ IF resolved
       THEN /\ mongo' = [mongo EXCEPT !.pending = @ - 1, !.readyState = "connected",
                                      !.instance = Handle, !.isConnected = TRUE]
            /\ IF procs[p].op \in StoreOps
                 THEN /\ procs' = [procs EXCEPT ![p].pc = "operating"]
                      /\ UNCHANGED returned
                 ELSE /\ procs' = [procs EXCEPT ![p] = IdleProc]
                      /\ returned' = Append(returned,
                           Ended(procs[p].op, "ok", Handle, procs[p].arg))
       ELSE /\ mongo' = [mongo EXCEPT
                           !.pending = @ - 1,
                           !.readyState = IF @ = "connecting" /\ mongo.pending = 1
                                            THEN "disconnected" ELSE @,
                           !.isConnected = isConnectedAfterFailure(mongo.isConnected)]
            /\ procs' = [procs EXCEPT ![p] = IdleProc]
            /\ returned' = Append(returned,
                 Ended(procs[p].op,
                       IF procs[p].op \in StoreOps THEN "DatabaseError" ELSE "ConnectError",
                       "none", procs[p].arg))
  /\ UNCHANGED <<clock, files, calls, tokVars, db>>

\* disconnect(): mongoose.disconnect() when isConnected, else nothing
Disconnect(p) ==
  /\ Call(p)
  /\ IF mongo.isConnected
       THEN /\ procs' = [procs EXCEPT ![p] = Began(p, "disconnect", "disconnecting")]
            /\ UNCHANGED <<mongo, returned>>
       ELSE /\ mongo' = [mongo EXCEPT !.closed = TRUE]
            /\ returned' = Append(returned, Ended("disconnect", "ok", "none", Beginning))
            /\ UNCHANGED procs

\* mongoose.disconnect() resolves; this.isConnected = false
DisconnectSettles(p) ==
  /\ procs[p].pc = "disconnecting"
  /\ mongo' = [mongo EXCEPT !.readyState = IF mongo.pending > 0 THEN "connecting" ELSE "disconnected",
                            !.isConnected = FALSE, !.closed = TRUE]
  /\ procs' = [procs EXCEPT ![p] = IdleProc]
  /\ returned' = Append(returned, Ended("disconnect", "ok", "none", procs[p].arg))
  /\ UNCHANGED <<clock, files, calls, tokVars, db>>

\* the 'disconnected' listener: the driver lost the connection
Disconnected ==
  /\ mongo.readyState = "connected"
  /\ mongo.instance # "null"
  /\ \A p \in Procs : procs[p].pc # "disconnecting"
  /\ mongo' = [mongo EXCEPT !.readyState = IF mongo.pending > 0 THEN "connecting" ELSE "disconnected",
                            !.isConnected = FALSE]
  /\ UNCHANGED <<clock, fileVars, tokVars, db>>

\* A store operation of MongoDBService: await this.ensureConnection(), then
\* the operation on the model.
StoreOperation(p, op) ==
  /\ Call(p)
  /\ IF mongo.instance # "null" /\ mongo.isConnected
       THEN /\ procs' = [procs EXCEPT ![p] = Began(p, op, "operating")]
            /\ UNCHANGED <<mongo, returned>>
       ELSE connect(p, op)

\* The operation reaches the database, or finds no connection.
Operates(p) ==
  /\ procs[p].pc = "operating"
  /\ procs' = [procs EXCEPT ![p] = IdleProc]
  /\ returned' = Append(returned,
       Ended(procs[p].op, IF mongo.readyState = "connected" THEN "ok" ELSE "DatabaseError",
             "none", procs[p].arg))
  /\ UNCHANGED <<clock, files, calls, tokVars, dbVars>>

NextConnection ==
  \/ \E p \in Procs : Connect(p)
  \/ \E p \in Procs : GetInstance(p)
  \/ \E p \in Procs, resolved \in BOOLEAN : ConnectSettles(p, resolved)
  \/ \E p \in Procs : Disconnect(p)
  \/ \E p \in Procs : DisconnectSettles(p)
  \/ Disconnected
  \/ \E p \in Procs : StoreOperation(p, "create")
  \/ \E p \in Procs : Operates(p)

SpecConnection == Init /\ [][NextConnection]_vars

(***************************************************************************)
(* Steps in which a caller's call begins, and the last call settled.       *)
(***************************************************************************)
LastEnded == returned'[Len(returned')]

Settles == Len(returned') = Len(returned) + 1

BeginsCall(ops) ==
  /\ calls' = calls + 1
  /\ \/ Settles /\ LastEnded.op \in ops
     \/ \E p \in Procs : procs[p].pc = "idle" /\ procs'[p].pc # "idle" /\ procs'[p].op \in ops

Established == mongo.instance # "null" /\ mongo.isConnected

(***************************************************************************)
(* C23. Connection idempotence: when the connection is established, a      *)
(* call of connect or getInstance starts no connection attempt, returns    *)
(* the existing handle, and leaves instance and isConnected (and the rest  *)
(* of the connection state) as they were, every time.                      *)
(***************************************************************************)
C23_IdempotentStep ==
  (Established /\ BeginsCall(ConnectOps)) =>
     /\ mongo' = mongo
     /\ Settles
     /\ LastEnded.kind = "ok"
     /\ LastEnded.value = mongo.instance

C23_Idempotent == [][C23_IdempotentStep]_vars

\* One attempt was made, and connect and getInstance have since answered
\* with the handle.
C23_Witness ==
  /\ Established
  /\ mongo.attempts = 1
  /\ Len(returned) = 3
  /\ \A i \in 1..3 : returned[i].kind = "ok" /\ returned[i].value = Handle
  /\ returned[2].op = "getInstance"
  /\ returned[3].op = "connect"

(***************************************************************************)
(* C24. At most one connection: whatever the interleaving of callers, at   *)
(* most one invocation of the underlying connect is pending or             *)
(* established at any time.                                                *)
(***************************************************************************)
C24_AtMostOne ==
  mongo.pending + (IF mongo.readyState = "connected" THEN 1 ELSE 0) <= 1

(***************************************************************************)
(* C25. Shutdown: once disconnect has completed, the connection is not     *)
(* connected, and every store operation begun after it fails; also when    *)
(* disconnect was called while a connect attempt was in flight.            *)
(***************************************************************************)
C25_Shutdown ==
  /\ mongo.closed => (~mongo.isConnected /\ mongo.readyState # "connected")
  /\ \A i \in 1..Len(returned) :
       (returned[i].op \in StoreOps /\ returned[i].afterClose) => returned[i].kind # "ok"

(***************************************************************************)
(* C26. Connect failure recovery: a failed attempt leaves isConnected      *)
(* false and gives its caller the failure; isConnected is never true       *)
(* without a handle; and a connect or getInstance called while not         *)
(* connected makes a fresh attempt.                                        *)
(***************************************************************************)
C26_FailureStep ==
  \A p \in Procs :
    (procs[p].pc = "connecting" /\ procs'[p].pc = "idle" /\ Settles /\ LastEnded.kind # "ok") =>
       /\ ~mongo'.isConnected
       /\ LastEnded.kind \in {"ConnectError", "DatabaseError"}
       /\ LastEnded.op = procs[p].op

C26_FreshStep ==
  (~mongo.isConnected /\ BeginsCall(ConnectOps)) =>
     /\ mongo'.attempts = mongo.attempts + 1
     /\ mongo'.pending = mongo.pending + 1

C26_HandleWhenConnected == mongo.isConnected => mongo.instance # "null"

C26_Recovery == [][C26_FailureStep /\ C26_FreshStep]_vars /\ []C26_HandleWhenConnected

\* An attempt failed, a later call made a second attempt, and that one
\* connected.
C26_Witness ==
  /\ Len(returned) >= 2
  /\ returned[1].op \in ConnectOps
  /\ returned[1].kind = "ConnectError"
  /\ returned[2].op \in ConnectOps
  /\ returned[2].kind = "ok"
  /\ returned[2].after = 1
  /\ mongo.attempts = 2
  /\ mongo.isConnected

(***************************************************************************)
(* The document-backed user service.  createUser looks the lower-cased     *)
(* email up with findOne, and then saves the document through              *)
(* MongoDBService.create; both are awaited, so other requests run between  *)
(* the lookup and the save.  The users collection has a unique index on    *)
(* email: a save of an email that is already stored is rejected by the     *)
(* database with the duplicate-key code.                                   *)
(***************************************************************************)
DuplicateKey == 11000

Mail_a == <<97, 64, 120, 46, 105, 111>>     \* "a@x.io"
Mail_A == <<65, 64, 88, 46, 73, 79>>        \* "A@X.IO"
Mail_b == <<98, 64, 120, 46, 105, 111>>     \* "b@x.io"

MongoUserInputs ==
  { [email |-> e, password |-> "secret", firstName |-> "John", lastName |-> "Doe"] :
      e \in {Mail_a, Mail_A, Mail_b} }

\* User.findOne({ email }): the stored users with that email
findOne(users, email) == SelectSeq(users, LAMBDA u : u.email = email)

\* the document createUser builds from the request
userDoc(userData) ==
  [email |-> ToLowerCase(userData.email), password |-> userData.password,
   firstName |-> userData.firstName, lastName |-> userData.lastName,
   preferences |-> DefaultPreferences]

\* doc.save(): the error code of the database, 0 when the document is stored
save(users, doc) == IF findOne(users, doc.email) # <<>> THEN DuplicateKey ELSE 0

\* the catch of MongoDBService.create: the error thrown for a database error
createError(code) ==
  IF code = DuplicateKey
    THEN [kind |-> "DatabaseError", status |-> 500, message |-> "email already exists"]
    ELSE [kind |-> "DatabaseError", status |-> 500, message |-> "Failed to create document"]

ConflictError == [kind |-> "ConflictError", status |-> 409, message |-> "User already exists"]

Created == [kind |-> "ok", status |-> 201, message |-> "none"]

Answered(p, outcome) ==
  /\ procs' = [procs EXCEPT ![p] = IdleProc]
  /\ returned' = Append(returned,
       [op |-> procs[p].op, email |-> procs[p].arg.email, kind |-> outcome.kind,
        status |-> outcome.status, message |-> outcome.message])

\* createUser(userData) up to `await MongoDBService.findOne(...)`
CreateUserMongo(p, userData) ==
  /\ Call(p)
  /\ procs' = [procs EXCEPT ![p] = [IdleProc EXCEPT !.pc = "findOne", !.op = "createUser",
                                                     !.arg = userData]]
  /\ UNCHANGED <<mongo, returned>>

\* findOne answers: ConflictError when the email is stored, else on to
\* `await MongoDBService.create(User, userDoc)`
FindOneSettles(p) ==
  /\ procs[p].pc = "findOne"
  /\ IF findOne(db.users, ToLowerCase(procs[p].arg.email)) # <<>>
       THEN Answered(p, ConflictError)
       ELSE /\ procs' = [procs EXCEPT ![p].pc = "save", ![p].data = userDoc(procs[p].arg)]
            /\ UNCHANGED returned
  /\ UNCHANGED <<clock, files, calls, tokVars, dbVars>>

\* doc.save() answers: the document is stored, or the unique index rejects it
SaveSettles(p) ==
  /\ procs[p].pc = "save"
  /\ LET code == save(db.users, procs[p].data)
     IN  IF code = 0
           THEN /\ db' = [db EXCEPT !.users = Append(@, procs[p].data)]
                /\ Answered(p, Created)
           ELSE /\ Answered(p, createError(code))
                /\ UNCHANGED db
  /\ UNCHANGED <<clock, files, calls, tokVars, mongo>>

NextAccounts ==
  \/ \E p \in Procs, userData \in MongoUserInputs : CreateUserMongo(p, userData)
  \/ \E p \in Procs : FindOneSettles(p)
  \/ \E p \in Procs : SaveSettles(p)

SpecAccounts == Init /\ [][NextAccounts]_vars

(***************************************************************************)
(* C27. Document backend duplicate email: a createUser whose lower-cased   *)
(* email is owned by a stored user when the call settles fails with the    *)
(* Conflict kind (409), also when the duplicate is found by the unique     *)
(* index at the save and not by the lookup.                                *)
(***************************************************************************)
C27_StepDuplicateIsConflict ==
  \A p \in Procs :
    (/\ procs[p].op = "createUser"
     /\ procs[p].pc \in {"findOne", "save"}
     /\ procs'[p].pc = "idle"
     /\ findOne(db.users, ToLowerCase(procs[p].arg.email)) # <<>>) =>
       /\ LastEnded.kind = "ConflictError"
       /\ LastEnded.status = 409

C27_DuplicateIsConflict == [][C27_StepDuplicateIsConflict]_vars

(***************************************************************************)
(* MongoDBService.find among other requests.  find awaits                  *)
(* model.countDocuments(query) and then the query itself: the database     *)
(* answers each from the collection as it is at that moment, and inserts   *)
(* and deletes of other requests reach the database in between.            *)
(***************************************************************************)
InsertInputs == { t \in LedgerRecords : t.userId = "u1" /\ t.type = "expense" }

FindInputs ==
  { [skip |-> 0, limit |-> 2, sort |-> "date"], [skip |-> 1, limit |-> 1, sort |-> "date"] }

\* find(model, query, options) up to `await model.countDocuments(query)`
FindBegins(p, query, options) ==
  /\ Call(p)
  /\ procs' = [procs EXCEPT ![p] = [IdleProc EXCEPT !.pc = "countDocuments", !.op = "find",
                                                     !.req = [query |-> query, options |-> options]]]
  /\ UNCHANGED <<mongo, returned>>

\* countDocuments answers; find goes on to await the query
CountSettles(p) ==
  /\ procs[p].pc = "countDocuments"
  /\ procs' = [procs EXCEPT ![p].pc = "query",
                            ![p].arg = [total |-> countDocuments(db.transactions, procs[p].req.query)]]
  /\ UNCHANGED <<clock, files, calls, returned, tokVars, dbVars>>

\* the query answers; find returns { data, total, skip, limit, pages }
QuerySettles(p) ==
  /\ procs[p].pc = "query"
  /\ LET query == procs[p].req.query
         options == procs[p].req.options
         data == queryPage(db.transactions, query, optionOr(options, "sort", "createdAt"),
                           optionOr(options, "skip", 0), optionOr(options, "limit", DefaultLimit))
     IN returned' = Append(returned,
          [op |-> "find", kind |-> "ok", input |-> procs[p].req,
           body |-> findResult(procs[p].arg.total, data, options)])
  /\ procs' = [procs EXCEPT ![p] = IdleProc]
  /\ UNCHANGED <<clock, files, calls, tokVars, dbVars>>

\* another request's document is inserted
InsertDocument(t) ==
  /\ calls < MaxCalls
  /\ Len(db.transactions) < MaxRecords
  /\ \A i \in 1..Len(db.transactions) : db.transactions[i].id # t.id
  /\ calls' = calls + 1
  /\ db' = [db EXCEPT !.transactions = Append(@, t)]
  /\ UNCHANGED <<clock, files, procs, returned, tokVars, mongo>>

\* another request's delete removes a document
DeleteDocument(i) ==
  /\ calls < MaxCalls
  /\ i \in 1..Len(db.transactions)
  /\ calls' = calls + 1
  /\ db' = [db EXCEPT !.transactions =
                        SubSeq(@, 1, i - 1) \o SubSeq(@, i + 1, Len(@))]
  /\ UNCHANGED <<clock, files, procs, returned, tokVars, mongo>>

NextPages ==
  \/ \E p \in Procs, options \in FindInputs : FindBegins(p, [userId |-> "u1"], options)
  \/ \E p \in Procs : CountSettles(p)
  \/ \E p \in Procs : QuerySettles(p)
  \/ \E t \in InsertInputs : InsertDocument(t)
  \/ \E i \in 1..MaxRecords : DeleteDocument(i)

SpecPages == Init /\ [][NextPages]_vars

(***************************************************************************)
(* C29. find result consistency: whatever inserts and deletes run beside   *)
(* a find, its result has data.length <= limit, and its data lies within   *)
(* its total: skip + data.length <= total whenever data was returned.      *)
(***************************************************************************)
C29_FindConsistent ==
  \A i \in 1..Len(returned) :
    returned[i].op = "find" =>
      LET b == returned[i].body
      IN /\ Len(b.data) <= b.limit
         /\ b.data # <<>> => b.skip + Len(b.data) <= b.total

(***************************************************************************)
(* transaction(callback).  MongoDBService.transaction starts a session     *)
(* and a transaction on it, awaits callback(session), commits, and on any  *)
(* error aborts and throws DatabaseError; its finally ends the session.    *)
(* DatabaseService.transaction awaits a delay, callback() and a delay,     *)
(* and on an error logs and throws.                                        *)
(*                                                                         *)
(* A body is the writes its callback makes, in order, and how it ends.  A  *)
(* write made with the session belongs to the transaction: it is stored    *)
(* when the transaction commits and dropped when it aborts.  A write made  *)
(* through the facade (MongoDBService.create takes no session) or without  *)
(* a session is stored at once.                                            *)
(***************************************************************************)
TxnDocs == { t \in LedgerRecords : t.userId = "u1" /\ t.category = "Food" /\ t.amount = 30 }

Writes == [doc : TxnDocs, via : {"session", "facade"}]

MaxWrites == 2       \* writes of one body

Bodies ==
  [writes : { ws \in UNION { [1..n -> Writes] : n \in 1..MaxWrites } :
                \A i, j \in 1..Len(ws) : ws[i].doc = ws[j].doc => i = j },
   outcome : {"returns", "throws"}]

Backends == {"MongoDBService", "DatabaseService"}

InTransaction(p) == procs[p].op = "transaction" /\ procs[p].pc # "idle"

\* transaction(callback) up to its first await: mongoose.startSession(), or
\* the delay of the placeholder
TransactionBegins(p, backend, body) ==
  /\ Call(p)
  /\ db = EmptyDatabase
  /\ returned = <<>>
  /\ \A q \in Procs : procs[q].pc = "idle"
  /\ procs' = [procs EXCEPT ![p] =
       [IdleProc EXCEPT !.pc = IF backend = "MongoDBService" THEN "startSession" ELSE "delay",
                        !.op = "transaction",
                        !.req = [backend |-> backend, body |-> body],
                        !.arg = [kind |-> "ok"]]]
  /\ UNCHANGED <<mongo, returned>>

\* the session is there; session.startTransaction(); callback(session) begins
SessionStarts(p) ==
  /\ procs[p].pc = "startSession"
  /\ db' = [db EXCEPT !.session.state = "active"]
  /\ procs' = [procs EXCEPT ![p].pc = "body", ![p].data = procs[p].req.body.writes]
  /\ UNCHANGED <<clock, files, calls, returned, tokVars, mongo>>

\* the first delay of the placeholder is over; callback() begins
DelayEnds(p) ==
  /\ procs[p].pc = "delay"
  /\ procs' = [procs EXCEPT ![p].pc = "body", ![p].data = procs[p].req.body.writes]
  /\ UNCHANGED <<clock, files, calls, returned, tokVars, dbVars>>

\* the callback's next write reaches the database
BodyWrites(p) ==
  /\ procs[p].pc = "body"
  /\ procs[p].data # <<>>
  /\ LET w == Head(procs[p].data)
     IN  IF procs[p].req.backend = "MongoDBService" /\ w.via = "session"
           THEN db' = [db EXCEPT !.session.writes = Append(@, w.doc)]
           ELSE db' = [db EXCEPT !.transactions = Append(@, w.doc)]
  /\ procs' = [procs EXCEPT ![p].data = Tail(@)]
  /\ UNCHANGED <<clock, files, calls, returned, tokVars, mongo>>

Finished(p, kind) ==
  /\ procs' = [procs EXCEPT ![p] = IdleProc]
  /\ returned' = Append(returned,
       [op |-> "transaction", backend |-> procs[p].req.backend,
        body |-> procs[p].req.body, kind |-> kind])

\* the callback returns or throws
BodyEnds(p) ==
  /\ procs[p].pc = "body"
  /\ procs[p].data = <<>>
  /\ IF procs[p].req.backend = "MongoDBService"
       THEN /\ procs' = [procs EXCEPT ![p].pc = IF procs[p].req.body.outcome = "throws"
                                                  THEN "abortTransaction"
                                                  ELSE "commitTransaction"]
            /\ UNCHANGED returned
       ELSE IF procs[p].req.body.outcome = "throws"
              THEN Finished(p, "Error")
              ELSE /\ procs' = [procs EXCEPT ![p].pc = "commitDelay"]
                   /\ UNCHANGED returned
  /\ UNCHANGED <<clock, files, calls, tokVars, dbVars>>

\* session.commitTransaction() settles: the writes of the transaction are
\* stored together, or the commit is rejected and the catch takes over
CommitSettles(p, resolved) ==
  /\ procs[p].pc = "commitTransaction"
  /\ IF resolved
       THEN /\ db' = [db EXCEPT !.transactions = @ \o db.session.writes,
                                !.session.writes = <<>>,
                                !.session.commits = @ + 1,
                                !.session.state = "committed"]
            /\ procs' = [procs EXCEPT ![p].pc = "endSession"]
       ELSE /\ db' = [db EXCEPT !.session.state = "commitFailed"]
            /\ procs' = [procs EXCEPT ![p].pc = "abortTransaction"]
  /\ UNCHANGED <<clock, files, calls, returned, tokVars, mongo>>

\* session.abortTransaction() settles: the writes of the transaction are
\* dropped and DatabaseError is thrown; after a rejected commit the driver
\* may reject the abort as well, and its error is thrown instead
AbortSettles(p, resolved) ==
  /\ procs[p].pc = "abortTransaction"
  /\ resolved \/ db.session.state = "commitFailed"
  /\ IF resolved
       THEN /\ db' = [db EXCEPT !.session.writes = <<>>,
                                !.session.aborts = @ + 1,
                                !.session.state = "aborted"]
            /\ procs' = [procs EXCEPT ![p].pc = "endSession", ![p].arg = [kind |-> "DatabaseError"]]
       ELSE /\ procs' = [procs EXCEPT ![p].pc = "endSession", ![p].arg = [kind |-> "MongoError"]]
            /\ UNCHANGED db
  /\ UNCHANGED <<clock, files, calls, returned, tokVars, mongo>>

\* finally: session.endSession(); then the result or the error reaches the
\* caller.  A session ended with its transaction open drops its writes.
EndSession(p) ==
  /\ procs[p].pc = "endSession"
  /\ db' = [db EXCEPT !.session.ends = @ + 1, !.session.writes = <<>>, !.session.state = "ended"]
  /\ Finished(p, procs[p].arg.kind)
  /\ UNCHANGED <<clock, files, calls, tokVars, mongo>>

\* the second delay of the placeholder is over; the result is returned
CommitDelayEnds(p) ==
  /\ procs[p].pc = "commitDelay"
  /\ Finished(p, "ok")
  /\ UNCHANGED <<clock, files, calls, tokVars, dbVars>>

NextTransaction ==
  \/ \E p \in Procs, backend \in Backends, body \in Bodies : TransactionBegins(p, backend, body)
  \/ \E p \in Procs : SessionStarts(p)
  \/ \E p \in Procs : DelayEnds(p)
  \/ \E p \in Procs : BodyWrites(p)
  \/ \E p \in Procs : BodyEnds(p)
  \/ \E p \in Procs, resolved \in BOOLEAN : CommitSettles(p, resolved)
  \/ \E p \in Procs, resolved \in BOOLEAN : AbortSettles(p, resolved)
  \/ \E p \in Procs : EndSession(p)
  \/ \E p \in Procs : CommitDelayEnds(p)

SpecTransaction == Init /\ [][NextTransaction]_vars

\* The documents a body writes, and those of them that are stored.
DocsOf(body) == { body.writes[i].doc : i \in 1..Len(body.writes) }

Visible == { db.transactions[i] : i \in 1..Len(db.transactions) }

(***************************************************************************)
(* C28. withTransaction: when the body fails, the caller gets an error,    *)
(* the transaction is aborted and none of the body's writes is stored;     *)
(* when the body succeeds and the call returns, the transaction is         *)
(* committed and all its writes are stored; the writes are never stored    *)
(* in part; the session is ended exactly once; commit and abort are never  *)
(* both applied.                                                           *)
(***************************************************************************)
C28_Transaction ==
  /\ \A i \in 1..Len(returned) :
       returned[i].op = "transaction" =>
         LET r == returned[i]
         IN  /\ r.body.outcome = "throws" =>
                  /\ r.kind # "ok"
                  /\ DocsOf(r.body) \cap Visible = {}
                  /\ r.backend = "MongoDBService" => db.session.aborts = 1
             /\ (r.body.outcome = "returns" /\ r.kind = "ok") =>
                  /\ DocsOf(r.body) \subseteq Visible
                  /\ r.backend = "MongoDBService" => db.session.commits = 1
             /\ r.backend = "MongoDBService" => db.session.ends = 1
  /\ \A p \in Procs :
       InTransaction(p) =>
         \/ DocsOf(procs[p].req.body) \cap Visible = {}
         \/ DocsOf(procs[p].req.body) \subseteq Visible
  /\ db.session.ends <= 1
  /\ ~(db.session.commits > 0 /\ db.session.aborts > 0)

(***************************************************************************)
(* C30. verifyToken check order: segment count, then signature, then       *)
(* expiry.  A token of other than three segments fails with InvalidFormat; *)
(* a three-segment token whose signature is not the server's fails with    *)
(* InvalidSignature, also when its expiry has passed and also when its     *)
(* payload segment is not JSON; an outcome that comes from reading the     *)
(* payload (Expired, a parse failure, or the claims) is given only for a   *)
(* token whose signature matched.                                          *)
(***************************************************************************)
SignedByServer == result.src \in {"issued", "signed", "junk"}

C30_CheckOrder ==
  result.op = "verify" =>
    /\ result.src = "truncated" => result.kind = "InvalidFormat"
    /\ result.src \in {"resigned", "literal"} => result.kind = "InvalidSignature"
    /\ result.kind \in {"Expired", "SyntaxError", "ok"} => SignedByServer
    /\ (result.kind = "TypeError" /\ result.src # "nonstring") => SignedByServer

\* An issued token signed again with another key is presented after its
\* expiry, and is refused for its signature.
C30_Witness ==
  /\ result.op = "verify"
  /\ result.src = "resigned"
  /\ result.exp < ResultNow
  /\ result.kind = "InvalidSignature"
====
